---------------------------- MODULE Spec2Model ----------------------------
(***************************************************************************)
(* A model of the pabigot C++ support library: the CRC engine of           *)
(* pabigot/crc.hpp (Rocksoft-model Definitions, the table-driven Tabler,   *)
(* store and residue).                                                     *)
(*                                                                         *)
(* Unsigned integers are modelled as the set of positions of their one     *)
(* bits, so that 32- and 64-bit registers keep their exact width: 0 is {}, *)
(* 1 is {0}, 0x80F is {0,1,2,3,11}.  Octets in memory are naturals 0..255. *)
(***************************************************************************)
EXTENDS Integers, Sequences, FiniteSets

---------------------------------------------------------------------------
(* Unsigned integer arithmetic on bit sets.                                *)

\* 2^n for the octet conversions (n <= 8).
RECURSIVE Pow2(_)
Pow2(n) == IF n = 0 THEN 1 ELSE 2 * Pow2(n - 1)

\* The value whose one bits are the members of S, as an enumerated set (the
\* form every operation below returns).
Bits(S) == {i : i \in S}

\* v is a value of an unsigned integer type (of at most 64 bits).  The loops
\* below test it on each value they carry to the next iteration, which also
\* makes the value be computed before the iteration starts.
IsUInt(v) == v \subseteq 0..63

\* a ^ b
Xor(a, b) == Bits((a \ b) \cup (b \ a))

\* a & b
And(a, b) == Bits(a \cap b)

\* a << k, in an unsigned type of fw bits (the bits shifted out are lost)
Shl(a, k, fw) == {i + k : i \in {j \in a : j + k < fw}}

\* a >> k for a shift count below the width of the type
Shr(a, k) == {i - k : i \in {j \in a : j >= k}}

\* the value of an octet (0..255) as an unsigned integer
OctetBits(b) == Bits({i \in 0..7 : (b \div Pow2(i)) % 2 = 1})

\* conversion of an unsigned integer to uint8_t: its low eight bits
RECURSIVE OctetSum(_, _)
OctetSum(a, i) ==
  IF i > 7 THEN 0 ELSE (IF i \in a THEN Pow2(i) ELSE 0) + OctetSum(a, i + 1)

ToOctet(a) == OctetSum(a, 0)

\* a numeral written as hexadecimal digits, most significant first
RECURSIVE Hex(_)
Hex(ds) ==
  IF ds = <<>> THEN {}
  ELSE LET n == Len(ds)
           lo == {i \in 0..3 : (ds[n] \div Pow2(i)) % 2 = 1}
       IN  Bits(lo \cup {i + 4 : i \in Hex(SubSeq(ds, 1, n - 1))})

\* uintmax_t(-1), the template argument written -1
AllOnes == Bits(0..63)

---------------------------------------------------------------------------
(* details::reverse_low_bits, uint_size_traits, uint_traits, uint_support  *)

\* The loop of reverse_low_bits.  msb and lsb are the positions of the single
\* one bit of the masks msb and lsb; the mask msb is zero once its bit has
\* been shifted out at the right, that is once its position is below 0 (lsb
\* stays within the 64 bits of the widest type and out is an unsigned value;
\* testing them has both computed before the next iteration).
RECURSIVE reverse_loop(_, _, _, _)
reverse_loop(v, msb, lsb, out) ==
  IF msb < 0 \/ lsb > 63 \/ ~IsUInt(out) THEN out
  ELSE reverse_loop(v, msb - 1, lsb + 1, IF msb \in v THEN Bits(out \cup {lsb}) ELSE out)

\* reverse_low_bits with the mask starting one bit too high
reverse_low_bits_from_bits(v, bits) == reverse_loop(v, bits, 0, {})

reverse_low_bits(v, bits) == reverse_loop(v, bits - 1, 0, {})

\* uint_category<B>()
uint_category(B) ==
  (IF B <= 8 THEN 1 ELSE 0) + (IF B <= 16 THEN 1 ELSE 0)
  + (IF B <= 32 THEN 1 ELSE 0) + (IF B <= 64 THEN 1 ELSE 0)

\* std::numeric_limits<least_type>::digits of uint_size_traits<C>
least_width(B) ==
  CASE uint_category(B) = 4 -> 8
    [] uint_category(B) = 3 -> 16
    [] uint_category(B) = 2 -> 32
    [] OTHER -> 64

\* std::numeric_limits<fast_type>::digits of uint_size_traits<C>: with the
\* host C library of the test build uint_fast8_t has 8 bits and the other
\* fast types have 64.
fast_width(B) == IF uint_category(B) = 4 THEN 8 ELSE 64

\* uint_traits::mask_for_bits, for the fast type of a B-bit value
mask_for_bits(B, bits) ==
  IF bits = fast_width(B) THEN 0..(fast_width(B) - 1)
  ELSE {i \in 0..(fast_width(B) - 1) : i < bits}

\* uint_support<B>::mask
mask(B) == mask_for_bits(B, B)

\* uint_support<B>::reflect(v, n): v is converted to fast_type first
reflect(B, v, n) == reverse_low_bits(And(v, 0..(fast_width(B) - 1)), n)

\* uint_support<B>::crc_apply: the loop over the n message bits
RECURSIVE crc_apply_loop(_, _, _, _, _)
crc_apply_loop(B, poly, rv, bi, n) ==
  IF bi >= n THEN rv
  ELSE LET xor_poly == (B - 1) \in rv
           shifted == Shl(rv, 1, fast_width(B))
       IN  crc_apply_loop(B, poly,
                          IF xor_poly THEN Xor(shifted, poly) ELSE shifted,
                          bi + 1, n)

\* uint_support::crc_apply without the mask on the value returned
uint_support_crc_apply_unmasked(B, poly, crc, msg, n) ==
  crc_apply_loop(B, poly, Xor(crc, Shl(msg, B - n, fast_width(B))), 0, n)

uint_support_crc_apply(B, poly, crc, msg, n) ==
  LET rv0 == Xor(crc, Shl(msg, B - n, fast_width(B)))
  IN  And(mask(B), crc_apply_loop(B, poly, rv0, 0, n))

---------------------------------------------------------------------------
(* details::base_crc<W, Rin> and crc<W, Poly, Rin, Rout, Init, XorOut>.    *)
(* A Definition d is the record of its template arguments                  *)
(* [width, Poly, Rin, Rout, Init, XorOut]; Poly, Init and XorOut are      *)
(* uintmax_t values.                                                       *)

\* base_crc::size
crc_size(d) == (7 + d.width) \div 8

\* crc::poly, crc::init, crc::xorout
crc_poly(d) == And(mask(d.width), d.Poly)

crc_init(d) == And(mask(d.width), d.Init)

crc_xorout(d) == And(mask(d.width), d.XorOut)

\* base_crc::reflect
base_crc_reflect(d, v) == reflect(d.width, v, d.width)

\* base_crc::crc_apply: chunks wider than the register are applied in
\* pieces of at most width bits
RECURSIVE base_crc_crc_apply(_, _, _, _, _)
base_crc_crc_apply(B, poly, crc, msg, n) ==
  IF n > B
    THEN LET submsg == Shr(msg, n - B)
             rv == uint_support_crc_apply(B, poly, crc, submsg, B)
         IN  IF IsUInt(rv) THEN base_crc_crc_apply(B, poly, rv, msg, n - B)
             ELSE {}
    ELSE uint_support_crc_apply(B, poly, crc, msg, n)

\* the number of bits of an element of the octet ranges append is given
bits_per_chunk == 8

\* crc::append over a range that starts again from init when the range is
\* empty
RECURSIVE crc_append_restart(_, _, _)
crc_append_restart(d, octets, crc) ==
  IF octets = <<>> THEN crc_init(d)
  ELSE LET chunk0 == OctetBits(Head(octets))
           chunk == IF d.Rin THEN reflect(d.width, chunk0, 8) ELSE chunk0
           rv == base_crc_crc_apply(d.width, crc_poly(d), crc, chunk, 8)
       IN  IF Len(octets) = 1 \/ ~IsUInt(rv) THEN rv
           ELSE crc_append_restart(d, Tail(octets), rv)

\* crc::append(first, last, crc) over a range of uint8_t
RECURSIVE crc_append(_, _, _)
crc_append(d, octets, crc) ==
  IF octets = <<>> THEN crc
  ELSE LET chunk0 == OctetBits(Head(octets))
           chunk == IF d.Rin THEN reflect(d.width, chunk0, bits_per_chunk)
                    ELSE chunk0
           rv == base_crc_crc_apply(d.width, crc_poly(d), crc, chunk,
                                    bits_per_chunk)
       IN  IF IsUInt(rv) THEN crc_append(d, Tail(octets), rv) ELSE {}

\* crc::finalize without the xorout
crc_finalize_no_xorout(d, crc) ==
  And(IF d.Rout THEN base_crc_reflect(d, crc) ELSE crc, 0..(least_width(d.width) - 1))

\* crc::finalize
crc_finalize(d, crc) ==
  LET r == IF d.Rout THEN base_crc_reflect(d, crc) ELSE crc
  IN  And(Xor(r, crc_xorout(d)), 0..(least_width(d.width) - 1))

\* base_crc::lookup_for_byte that leaves the entry of a reflected Definition
\* unreflected
lookup_for_byte_unreflected(d, byte) ==
  LET b == IF d.Rin THEN And(reflect(d.width, OctetBits(byte), 8), 0..7)
           ELSE OctetBits(byte)
  IN  And(mask(d.width), base_crc_crc_apply(d.width, crc_poly(d), {}, b, 8))

\* base_crc::lookup_for_byte, by way of crc::lookup_for_byte
lookup_for_byte(d, byte) ==
  LET b == IF d.Rin THEN And(reflect(d.width, OctetBits(byte), 8), 0..7)
           ELSE OctetBits(byte)
      rv == base_crc_crc_apply(d.width, crc_poly(d), {}, b, 8)
  IN  And(mask(d.width), IF d.Rin THEN base_crc_reflect(d, rv) ELSE rv)

\* details::lookup_table<CRC>()
lookup_table(d) == [n \in 0..255 |-> lookup_for_byte(d, n)]

\* The loop of base_crc::store and of Tabler::store: `while (nb--)`.  m is
\* the memory, a function from addresses to octets, and bp the address the
\* next octet goes to.
RECURSIVE store_loop(_, _, _, _, _)
store_loop(refin, crc, nb, m, bp) ==
  IF nb = 0 THEN [mem |-> m, bp |-> bp]
  ELSE IF refin
         THEN store_loop(refin, Shr(crc, 8), nb - 1,
                         [m EXCEPT ![bp] = ToOctet(crc)], bp + 1)
         ELSE store_loop(refin, crc, nb - 1,
                         [m EXCEPT ![bp] = ToOctet(Shr(crc, 8 * (nb - 1)))],
                         bp + 1)

\* base_crc::store that writes the most significant octet first whatever
\* refin is
base_crc_store_msb_first(d, crc, m, bp) ==
  store_loop(FALSE, And(crc, 0..(fast_width(d.width) - 1)), crc_size(d), m, bp)

\* base_crc::store(crc, bp): the memory after the call and the pointer
\* returned
base_crc_store(d, crc, m, bp) ==
  store_loop(d.Rin, And(crc, 0..(fast_width(d.width) - 1)), crc_size(d), m, bp)

\* crc::residue
crc_residue(d) ==
  LET buf == [i \in 0..(crc_size(d) - 1) |-> 0]
      st == base_crc_store(d, crc_finalize(d, crc_init(d)), buf, 0)
      octets == [i \in 1..crc_size(d) |-> st.mem[i - 1]]
  IN  crc_finalize(d, crc_append(d, octets, crc_init(d)))

---------------------------------------------------------------------------
(* Tabler<CRC>.  table is the instance member; ub is what the build makes  *)
(* of the shift `crc >> (CRC::width - 8)` when width < 8, where the        *)
(* unsigned count wraps to a value above the width of the type.            *)

\* Tabler::make_init that takes the Definition's init as it is
Tabler_make_init_raw(d) == crc_init(d)

\* Tabler::make_init
Tabler_make_init(d) ==
  IF d.Rin THEN reverse_low_bits(crc_init(d), d.width) ELSE crc_init(d)

\* Tabler::append(octet, crc) that indexes the table by the high octet of the
\* register whatever refin is
Tabler_append_msb_first(d, tbl, ubv, octet, crc) ==
  LET shifted == IF d.width >= 8 THEN Shr(crc, d.width - 8) ELSE ubv
  IN  And(mask(d.width),
          Xor(tbl[ToOctet(Xor(shifted, OctetBits(octet)))],
              Shl(crc, 8, fast_width(d.width))))

\* Tabler::append(octet, crc)
Tabler_append(d, tbl, ubv, octet, crc) ==
  LET fw == fast_width(d.width)
      shifted == IF d.width >= 8 THEN Shr(crc, d.width - 8) ELSE ubv
      next == IF d.Rin
                THEN Xor(tbl[ToOctet(Xor(crc, OctetBits(octet)))], Shr(crc, 8))
                ELSE Xor(tbl[ToOctet(Xor(shifted, OctetBits(octet)))],
                         Shl(crc, 8, fw))
  IN  And(mask(d.width), next)

\* Tabler::append(first, last, crc)
RECURSIVE Tabler_append_range(_, _, _, _, _)
Tabler_append_range(d, tbl, ubv, octets, crc) ==
  IF octets = <<>> THEN crc
  ELSE LET rv == Tabler_append(d, tbl, ubv, Head(octets), crc)
       IN  IF IsUInt(rv) THEN Tabler_append_range(d, tbl, ubv, Tail(octets), rv)
           ELSE {}

\* Tabler::finalize without the reflection of a cross-endian checksum
Tabler_finalize_no_reflect(d, crc) ==
  And(Xor(crc, crc_xorout(d)), 0..(least_width(d.width) - 1))

\* Tabler::finalize
Tabler_finalize(d, crc) ==
  LET x == Xor(crc, crc_xorout(d))
      r == IF d.Rin # d.Rout THEN reverse_low_bits(x, d.width) ELSE x
  IN  And(r, 0..(least_width(d.width) - 1))

\* Tabler::store(crc, bp)
Tabler_store(d, crc, m, bp) ==
  store_loop(d.Rin, And(crc, 0..(least_width(d.width) - 1)), crc_size(d), m, bp)

---------------------------------------------------------------------------
(* The Definitions and messages the model is run over.                     *)

Definition(w, p, rin, rout, i, x) ==
  [width |-> w, Poly |-> p, Rin |-> rin, Rout |-> rout, Init |-> i, XorOut |-> x]

\* using CRC32 = crc<32, 0x04c11db7, true, true, -1, -1>
CRC32 == Definition(32, Hex(<<0, 4, 12, 1, 1, 13, 11, 7>>), TRUE, TRUE, AllOnes, AllOnes)

\* The Definitions of the test suite, over check_dat.
CRC4_ITU == Definition(4, Hex(<<3>>), TRUE, TRUE, {}, {})

CRC5_USB == Definition(5, Hex(<<0, 5>>), TRUE, TRUE, Hex(<<1, 15>>), Hex(<<1, 15>>))

CRC8_std == Definition(8, Hex(<<0, 7>>), FALSE, FALSE, {}, {})

CRC12_x3GPP == Definition(12, Hex(<<8, 0, 15>>), FALSE, TRUE, {}, {})

CRC15_std == Definition(15, Hex(<<4, 5, 9, 9>>), FALSE, FALSE, {}, {})

CRC16_XMODEM == Definition(16, Hex(<<1, 0, 2, 1>>), FALSE, FALSE, {}, {})

CRC16_X25 == Definition(16, Hex(<<1, 0, 2, 1>>), TRUE, TRUE, AllOnes, AllOnes)

CRC24_BLE == Definition(24, Hex(<<0, 0, 0, 6, 5, 11>>), TRUE, TRUE, Hex(<<5, 5, 5, 5, 5, 5>>), {})

CRC32_BZIP2 == Definition(32, Hex(<<0, 4, 12, 1, 1, 13, 11, 7>>), FALSE, FALSE, AllOnes, AllOnes)

CRC64_XZ ==
  Definition(64, Hex(<<4, 2, 15, 0, 14, 1, 14, 11, 10, 9, 14, 10, 3, 6, 9, 3>>),
             TRUE, TRUE, AllOnes, AllOnes)

Catalogue ==
  {CRC4_ITU, CRC5_USB, CRC8_std, CRC12_x3GPP, CRC15_std, CRC16_XMODEM, CRC16_X25,
   CRC24_BLE, CRC32, CRC32_BZIP2, CRC64_XZ}

\* check_dat, the ASCII octets "123456789"
check_dat == <<49, 50, 51, 52, 53, 54, 55, 56, 57>>

\* Template arguments the other Definitions are drawn from: a width below
\* eight bits, widths of one and two octets and one in between; two
\* polynomials (0x1021 and 0x8005, reduced to the width by crc::poly); every
\* combination of the reflection flags; all-zero and all-one (-1) initial
\* values; final XOR values 0, 1 and -1.
Widths == {3, 8, 12, 16}

Polys == {Hex(<<1, 0, 2, 1>>), Hex(<<8, 0, 0, 5>>)}

Inits == {{}, AllOnes}

XorOuts == {{}, {0}, AllOnes}

Definitions ==
  {Definition(w, p, rin, rout, i, x) :
     w \in Widths, p \in Polys, rin \in BOOLEAN, rout \in BOOLEAN,
     i \in Inits, x \in XorOuts}

\* The longest message drawn octet by octet, and the octets it is drawn from.
MaxLen == 2

Octets == {49, 200}

Messages == UNION {[1..k -> Octets] : k \in 0..MaxLen}

\* The most octets one append call is given.
MaxChunk == 2

\* Octets of the buffer behind the place of the stored CRC.
Slack == 2

\* What a build can make of the shift by a count above the width of the type
\* (width < 8, not reflected): the low octet of the shifted value is sampled
\* at its two extremes, all zeros (the count taken modulo the register size
\* by the processor, or a shift that empties the register) and all ones.
ShiftOutcomes(d) ==
  IF d.width < 8 /\ ~d.Rin THEN {{}, Bits(0..7)} ELSE {{}}

---------------------------------------------------------------------------
(* The state: one Definition and its Tabler, and a caller that threads a   *)
(* running register through append calls over a buffer, finalizes, stores  *)
(* the checksum behind the message and runs on over the stored checksum,   *)
(* once with the Definition's functions and once with the Tabler's.        *)

VARIABLES
  defn,     \* the Definition: the template arguments of crc<...>
  ub,       \* the build's outcome of the shift by an oversized count
  table,    \* Tabler::table
  residue,  \* Tabler::residue
  msg,      \* the message the caller prepared
  mem,      \* the buffer given to the Definition's functions
  tmem,     \* the buffer given to the Tabler's functions
  fill,     \* octets of the buffer in use: the message, then also the CRC
  pos,      \* octets of the buffer appended so far
  crc,      \* the caller's running register, Definition form
  tcrc,     \* the caller's running register, Tabler form
  sum,      \* the value crc::finalize returned last
  tsum,     \* the value Tabler::finalize returned last
  op,       \* the last call: "none", "append", "finalize" or "store"
  arg,      \* the number of octets of the last append call
  prev,     \* the register given to the last crc::append call
  tprev,    \* the register given to the last Tabler::append call
  ret,      \* the pointer base_crc::store returned
  tret      \* the pointer Tabler::store returned

\* A direct caller of uint_support<B>::reflect (TEST(CRC, reflect)).
VARIABLES
  rfB,       \* the B of uint_support<B>
  rfv,       \* the value given to reflect
  rfn,       \* the number of bits given to reflect
  rfout,     \* reflect(rfv, rfn)
  rfback,    \* reflect(rfout, rfn)
  rfpc       \* "idle", "arg" (arguments chosen), "once" or "twice" (reflected)

\* Threads that share the Tabler, each over its own data.
VARIABLES
  tdata,    \* the octets of each thread
  tpos,     \* the octets each thread has appended
  treg,     \* the running register of each thread
  tres,     \* the checksum each thread finalized
  tbuf,     \* the buffer each thread stores its checksum to
  tpc,      \* "append", "final" or "stored", for each thread
  alone     \* the checksum of each thread's data, computed on its own

\* An rr_adaptor and its caller.
VARIABLES
  rrcount,   \* count_
  rrdata,    \* the count_ values data_ points at
  rrhead,    \* head_
  rrtail,    \* tail_
  rrwild,    \* the stores through data_ that fell outside the count_ values
  rrfifo,    \* the values pushed and neither popped nor discarded, oldest first
  rrprev,    \* rrfifo before the last call
  rrop,      \* the last call: "none", "push", "pop" or "clear"
  rrdiscard, \* what the last push returned
  rrpopped,  \* what the last pop returned
  rrret,     \* what the last size(), empty(), full() or max_size() returned
  rrstored   \* how many values the buffer holds

\* Values with a link field, the forward_chains that link them, the last
\* call made on a chain, and a range-for loop over a chain.
VARIABLES
  fcnext,    \* the link field of each value: a value, null or unlinked_ptr()
  fcfront,   \* front_ of each chain
  fcback,    \* back_ of each chain
  fcop,      \* the last call: "none", "link_front", "unlink", ...
  fcchain,   \* the chain it was made on
  fcarg,     \* its value argument (0 when it has none)
  fcpos,     \* the pos argument of link_after (0 otherwise)
  fcpred,    \* its predicate argument: the set of values it is true of
  fcret,     \* the pointer it returned (0 when it returns none)
  fcwas,     \* the values of each chain, in order, before the call
  fcwasnext  \* the link fields before the call

VARIABLES
  itpc,      \* "idle", "loop" (at the test of the loop), "incr" or "done"
  itcurrent, \* chain_iterator_type::current
  itnext,    \* chain_iterator_type::next
  itdrop,    \* the values the loop body unlinks when it visits them
  itorig,    \* the values of the chain when the loop began
  itvisited, \* the values the body has visited, in order
  ohbegin,   \* octets_helper::begin_, an address
  ohend,     \* octets_helper::end_
  ohbp,      \* octets_helper::bp_, nullptr when invalid
  ohbuf,     \* the octets of the referenced buffer, by address
  ohop,      \* the last member function called on the helper
  ohs,       \* its span argument
  ohret,     \* what it returned
  ohwasbp,   \* bp_ before that call
  ohwasbuf,  \* the buffer before that call
  ohbad,     \* since construction or the last reset() a call asked for more
             \* than was available, or invalidate() was called
  uulittle,  \* the host stores integers least significant octet first
  uubase,    \* a uuid128_type, its octets 0..15
  uuval,     \* the uuid128_type derived from it
  uuu,       \* the 16-bit value it was derived with
  uuop,      \* the last member function called
  uuret,     \* what it returned
  shpc,      \* "none", "idle" (no store_helper exists) or "live" (one does)
  shsp,      \* store_helper::sp of the helper that exists or existed last
  shtag,     \* the tag start_store() was called with
  shcount,   \* the count start_store() was called with
  shreset,   \* reset() was called since that start_store()
  shn        \* calls made on the adv_data since construction, the
             \* destructor of a store_helper not counted

tablerVars == <<defn, ub, table, residue>>

callerVars ==
  <<msg, mem, tmem, fill, pos, crc, tcrc, sum, tsum, op, arg, prev, tprev, ret, tret>>

reflVars == <<rfB, rfv, rfn, rfout, rfback, rfpc>>

threadVars == <<tdata, tpos, treg, tres, tbuf, tpc, alone>>

rrVars ==
  <<rrcount, rrdata, rrhead, rrtail, rrwild, rrfifo, rrprev, rrop, rrdiscard, rrpopped,
    rrret, rrstored>>

fcVars ==
  <<fcnext, fcfront, fcback, fcop, fcchain, fcarg, fcpos, fcpred, fcret, fcwas,
    fcwasnext>>

itVars == <<itpc, itcurrent, itnext, itdrop, itorig, itvisited>>

ohVars ==
  <<ohbegin, ohend, ohbp, ohbuf, ohop, ohs, ohret, ohwasbp, ohwasbuf, ohbad>>

uuVars == <<uulittle, uubase, uuval, uuu, uuop, uuret>>

shVars == <<shpc, shsp, shtag, shcount, shreset, shn>>

vars == <<tablerVars, callerVars, reflVars, threadVars, rrVars, fcVars, itVars, ohVars, uuVars, shVars>>

\* No store_helper
NoStore ==
  /\ shpc = "none"
  /\ shsp = 0
  /\ shtag = 0
  /\ shcount = 0
  /\ shreset = FALSE
  /\ shn = 0

\* No UUID
NoUuid ==
  /\ uulittle = TRUE
  /\ uubase = <<>>
  /\ uuval = <<>>
  /\ uuu = 0
  /\ uuop = "none"
  /\ uuret = 0

\* No octets_helper
NoOctets ==
  /\ ohbegin = 0
  /\ ohend = 0
  /\ ohbp = 0
  /\ ohbuf = <<>>
  /\ ohop = "none"
  /\ ohs = 0
  /\ ohret = 0
  /\ ohwasbp = 0
  /\ ohwasbuf = <<>>
  /\ ohbad = FALSE

\* No rr_adaptor
NoRR ==
  /\ rrcount = 0
  /\ rrdata = <<>>
  /\ rrhead = 0
  /\ rrtail = 0
  /\ rrwild = {}
  /\ rrfifo = <<>>
  /\ rrprev = <<>>
  /\ rrop = "none"
  /\ rrdiscard = FALSE
  /\ rrpopped = 0
  /\ rrret = 0
  /\ rrstored = 0

\* No value and no chain
NoChain ==
  /\ fcnext = <<>>
  /\ fcfront = <<>>
  /\ fcback = <<>>
  /\ fcop = "none"
  /\ fcchain = 0
  /\ fcarg = 0
  /\ fcpos = 0
  /\ fcpred = {}
  /\ fcret = 0
  /\ fcwas = <<>>
  /\ fcwasnext = <<>>

\* No range-for loop
NoIter ==
  /\ itpc = "idle"
  /\ itcurrent = 0
  /\ itnext = 0
  /\ itdrop = {}
  /\ itorig = <<>>
  /\ itvisited = <<>>

\* No caller of reflect, no thread, no caller with a buffer.
NoReflect ==
  /\ rfB = 8
  /\ rfv = {}
  /\ rfn = 8
  /\ rfout = {}
  /\ rfback = {}
  /\ rfpc = "idle"

NoThreads ==
  /\ tdata = <<>>
  /\ tpos = <<>>
  /\ treg = <<>>
  /\ tres = <<>>
  /\ tbuf = <<>>
  /\ tpc = <<>>
  /\ alone = <<>>

NoCaller ==
  /\ msg = <<>>
  /\ mem = <<>>
  /\ tmem = <<>>
  /\ fill = 0
  /\ pos = 0
  /\ crc = {}
  /\ tcrc = {}
  /\ sum = {}
  /\ tsum = {}
  /\ op = "none"
  /\ arg = 0
  /\ prev = {}
  /\ tprev = {}
  /\ ret = 0
  /\ tret = 0

\* the address the checksum is stored at: the end of the message
dst == Len(msg)

\* the octets [first, last) of a buffer, as the range an append call is given
Range(m, first, last) == [i \in 1..(last - first) |-> m[first + i - 1]]

\* The state after construction of the Tabler t of Definition d (its table
\* tbl and residue res), with message m in the caller's buffer.
InitWith(d, tbl, res, m) ==
  /\ defn = d
  /\ ub \in ShiftOutcomes(d)
  /\ table = tbl
  /\ residue = res
  /\ msg = m
  /\ mem = [i \in 0..(Len(m) + crc_size(d) + Slack - 1) |->
              IF i < Len(m) THEN m[i + 1] ELSE 238]
  /\ tmem = mem
  /\ fill = Len(m)
  /\ pos = 0
  /\ crc = crc_init(d)
  /\ tcrc = Tabler_make_init(d)
  /\ sum = {}
  /\ tsum = {}
  /\ op = "none"
  /\ arg = 0
  /\ prev = {}
  /\ tprev = {}
  /\ ret = 0
  /\ tret = 0
  /\ NoReflect
  /\ NoThreads
  /\ NoRR
  /\ NoChain
  /\ NoIter
  /\ NoOctets
  /\ NoUuid
  /\ NoStore

\* The table depends on width, Poly and Rin alone (lookup_for_byte), so it is
\* built once for the Definitions that share them.
Init ==
  \/ \E w \in Widths, p \in Polys, rin \in BOOLEAN :
        \E tbl \in {lookup_table(Definition(w, p, rin, FALSE, {}, {}))} :
          \E rout \in BOOLEAN, i \in Inits, x \in XorOuts :
            \E res \in {crc_residue(Definition(w, p, rin, rout, i, x))} :
              \E m \in Messages :
                InitWith(Definition(w, p, rin, rout, i, x), tbl, res, m)
  \/ \E d \in Catalogue :
        InitWith(d, lookup_table(d), crc_residue(d), check_dat)

\* crc = CRC::append(first, last, crc) and crc = tabler.append(first, last,
\* crc) over the next k octets of the buffer
AppendRange(k) ==
  /\ pos + k <= fill
  /\ crc' = crc_append(defn, Range(mem, pos, pos + k), crc)
  /\ tcrc' = Tabler_append_range(defn, table, ub, Range(tmem, pos, pos + k), tcrc)
  /\ pos' = pos + k
  /\ prev' = crc
  /\ tprev' = tcrc
  /\ op' = "append"
  /\ arg' = k
  /\ UNCHANGED <<tablerVars, msg, mem, tmem, fill, sum, tsum, ret, tret>>
  /\ UNCHANGED <<reflVars, threadVars, rrVars, fcVars, itVars, ohVars, uuVars, shVars>>

\* CRC::finalize(crc) and tabler.finalize(crc), once the buffer is consumed
Finalize ==
  /\ pos = fill
  /\ sum' = crc_finalize(defn, crc)
  /\ tsum' = Tabler_finalize(defn, tcrc)
  /\ op' = "finalize"
  /\ UNCHANGED <<tablerVars, msg, mem, tmem, fill, pos, crc, tcrc,
                 arg, prev, tprev, ret, tret>>
  /\ UNCHANGED <<reflVars, threadVars, rrVars, fcVars, itVars, ohVars, uuVars, shVars>>

\* CRC::store(sum, cp) and tabler.store(sum, cp) with cp the end of the message
Store ==
  /\ op = "finalize"
  /\ fill = dst
  /\ LET st == base_crc_store(defn, sum, mem, dst)
          tst == Tabler_store(defn, tsum, tmem, dst)
     IN  /\ mem' = st.mem
         /\ ret' = st.bp
         /\ tmem' = tst.mem
         /\ tret' = tst.bp
  /\ fill' = dst + crc_size(defn)
  /\ op' = "store"
  /\ UNCHANGED <<tablerVars, msg, pos, crc, tcrc, sum, tsum, arg, prev, tprev>>
  /\ UNCHANGED <<reflVars, threadVars, rrVars, fcVars, itVars, ohVars, uuVars, shVars>>

Next ==
  \/ \E k \in 0..MaxChunk : AppendRange(k)
  \/ Finalize
  \/ Store

Spec == Init /\ [][Next]_vars

-----------------------------------------------------------------------------
\* A caller of uint_support<B>::reflect(v, n) that reflects a value and then
\* reflects the result back.

\* The B of TEST(CRC, reflect)
ReflectWidths == {3, 4, 5, 11, 16, 32, 64}

\* The values TEST(CRC, reflect) reflects
TestValues ==
  { Hex(<<3, 8, 5>>), Hex(<<1, 0, 2, 1>>), Hex(<<0, 4, 12, 1, 1, 13, 11, 7>>),
    Hex(<<4, 2, 15, 0, 14, 1, 14, 11, 10, 9, 14, 10, 3, 6, 9, 3>>) }

ExhaustBits == 4

\* Every value of ExhaustBits bits, the test's values, all ones, and single
\* bits at and around the octet, 32-bit and 64-bit boundaries.
ReflectValues ==
  (SUBSET (0..(ExhaustBits - 1))) \cup TestValues \cup {AllOnes}
    \cup {{i} : i \in {7, 8, 31, 32, 63}}

NoTabler ==
  /\ defn = <<>>
  /\ ub = {}
  /\ table = <<>>
  /\ residue = {}

ReflectInit ==
  /\ rfB \in ReflectWidths
  /\ rfn \in 1..fast_width(rfB)
  /\ rfv \in ReflectValues
  /\ rfout = {}
  /\ rfback = {}
  /\ rfpc = "arg"
  /\ NoTabler
  /\ NoCaller
  /\ NoThreads
  /\ NoRR
  /\ NoChain
  /\ NoIter
  /\ NoOctets
  /\ NoUuid
  /\ NoStore

Reflect ==
  /\ rfpc = "arg"
  /\ rfout' = reflect(rfB, rfv, rfn)
  /\ rfpc' = "once"
  /\ UNCHANGED <<rfB, rfv, rfn, rfback>>
  /\ UNCHANGED <<tablerVars, callerVars, threadVars, rrVars, fcVars, itVars, ohVars, uuVars, shVars>>

ReflectBack ==
  /\ rfpc = "once"
  /\ rfback' = reflect(rfB, rfout, rfn)
  /\ rfpc' = "twice"
  /\ UNCHANGED <<rfB, rfv, rfn, rfout>>
  /\ UNCHANGED <<tablerVars, callerVars, threadVars, rrVars, fcVars, itVars, ohVars, uuVars, shVars>>

ReflectNext == Reflect \/ ReflectBack

SpecReflect == ReflectInit /\ [][ReflectNext]_vars

-----------------------------------------------------------------------------
\* Threads that share one Tabler. Each thread appends its own octets one at a
\* time to its own register, finalizes, and stores the checksum to its own
\* buffer; the steps of the threads interleave.

NThreads == 2

Threads == 1..NThreads

\* The data of a thread: MaxLen octets of check_dat from one of three offsets
ThreadMessages == {SubSeq(check_dat, s, s + MaxLen - 1) : s \in 1..3}

SharedDefinitions ==
  Catalogue \cup {d \in Definitions : d.Poly = Hex(<<1, 0, 2, 1>>)
                                       /\ d.Init = AllOnes /\ d.XorOut = {0}}

SharedInit ==
  /\ \E d \in SharedDefinitions :
       \E tbl \in {lookup_table(d)} :
         /\ defn = d
         /\ ub \in ShiftOutcomes(d)
         /\ table = tbl
         /\ residue = crc_residue(d)
         /\ tdata \in [Threads -> ThreadMessages]
         /\ treg = [t \in Threads |-> Tabler_make_init(d)]
         /\ tbuf = [t \in Threads |-> [i \in 0..(crc_size(d) - 1) |-> 0]]
         /\ alone = [t \in Threads |->
                       Tabler_finalize(d, Tabler_append_range(d, tbl, ub, tdata[t],
                                                              Tabler_make_init(d)))]
  /\ tpos = [t \in Threads |-> 0]
  /\ tres = [t \in Threads |-> {}]
  /\ tpc = [t \in Threads |-> "append"]
  /\ NoCaller
  /\ NoReflect
  /\ NoRR
  /\ NoChain
  /\ NoIter
  /\ NoOctets
  /\ NoUuid
  /\ NoStore

\* Tabler::append(octet, crc) called by thread t with its own register
ThreadAppend_shared_register(t) ==
  /\ tpc[t] = "append"
  /\ tpos[t] < Len(tdata[t])
  /\ treg' = [u \in Threads |->
                Tabler_append(defn, table, ub, tdata[t][tpos[t] + 1], treg[t])]
  /\ tpos' = [tpos EXCEPT ![t] = tpos[t] + 1]
  /\ UNCHANGED <<tablerVars, tdata, tres, tbuf, tpc, alone>>
  /\ UNCHANGED <<callerVars, reflVars, rrVars, fcVars, itVars, ohVars, uuVars, shVars>>

ThreadAppend(t) ==
  /\ tpc[t] = "append"
  /\ tpos[t] < Len(tdata[t])
  /\ treg' = [treg EXCEPT ![t] =
                Tabler_append(defn, table, ub, tdata[t][tpos[t] + 1], treg[t])]
  /\ tpos' = [tpos EXCEPT ![t] = tpos[t] + 1]
  /\ UNCHANGED <<tablerVars, tdata, tres, tbuf, tpc, alone>>
  /\ UNCHANGED <<callerVars, reflVars, rrVars, fcVars, itVars, ohVars, uuVars, shVars>>

\* Tabler::finalize(crc) called by thread t
ThreadFinalize(t) ==
  /\ tpc[t] = "append"
  /\ tpos[t] = Len(tdata[t])
  /\ tres' = [tres EXCEPT ![t] = Tabler_finalize(defn, treg[t])]
  /\ tpc' = [tpc EXCEPT ![t] = "final"]
  /\ UNCHANGED <<tablerVars, tdata, tpos, treg, tbuf, alone>>
  /\ UNCHANGED <<callerVars, reflVars, rrVars, fcVars, itVars, ohVars, uuVars, shVars>>

\* Tabler::store(crc, bp) called by thread t on its own buffer
ThreadStore(t) ==
  /\ tpc[t] = "final"
  /\ tbuf' = [tbuf EXCEPT ![t] = Tabler_store(defn, tres[t], tbuf[t], 0).mem]
  /\ tpc' = [tpc EXCEPT ![t] = "stored"]
  /\ UNCHANGED <<tablerVars, tdata, tpos, treg, tres, alone>>
  /\ UNCHANGED <<callerVars, reflVars, rrVars, fcVars, itVars, ohVars, uuVars, shVars>>

SharedNext ==
  \E t \in Threads : ThreadAppend(t) \/ ThreadFinalize(t) \/ ThreadStore(t)

SpecShared == SharedInit /\ [][SharedNext]_vars

-----------------------------------------------------------------------------
\* Claims about one caller that runs the Definition and its Tabler side by side.

\* The first finalize of the message, before any checksum was stored after it.
MessageFinalized == op = "finalize" /\ fill = dst

\* C1: for every Definition and every byte sequence, finalizing the Tabler's
\* table-driven append gives the same checksum as finalizing the Definition's
\* bit-by-bit append over the same sequence.
C1_TableEqualsBitwise == MessageFinalized => tsum = sum

\* C2: for every Definition whose width is a multiple of 8 and every message,
\* the finalized CRC of the message followed by its own stored checksum is
\* residue().
C2_ResidueRoundTrip ==
  (op = "finalize" /\ fill = dst + crc_size(defn) /\ defn.width % 8 = 0)
    => sum = residue

\* The Definition register in the form the table-driven engine keeps it:
\* bit-reversed over width when refin is set.
TableForm(d, r) == IF d.Rin THEN reverse_low_bits(r, d.width) ELSE r

\* C3: for every Definition, refin # refout and any xorout included,
\* Tabler::finalize of the table-form register is the Definition's finalize
\* of the register.
C3_FinalizeAgrees ==
  Tabler_finalize(defn, TableForm(defn, crc)) = crc_finalize(defn, crc)

\* Octet j (0 the least significant) of a value.
ByteOf(v, j) == ToOctet(Shr(v, 8 * j))

\* What a buffer must hold after size octets of checksum s were stored at dst.
StoredAt(d, m, s, size) ==
  /\ \A k \in 0..(size - 1) :
       m[dst + k] = ByteOf(s, IF d.Rin THEN k ELSE size - 1 - k)
  /\ \A i \in DOMAIN m :
       /\ i < dst => m[i] = msg[i + 1]
       /\ i >= dst + size => m[i] = 238

\* C5: store, of the Definition and of the Tabler, writes size = ceil(width/8)
\* octets at dst, least significant first when refin is set and most
\* significant first otherwise, leaves every other octet as it was, and
\* returns dst + size.
C5_StoreLayout ==
  op = "store" =>
    \E size \in 1..8 :
      /\ 8 * size >= defn.width
      /\ 8 * (size - 1) < defn.width
      /\ StoredAt(defn, mem, sum, size)
      /\ StoredAt(defn, tmem, tsum, size)
      /\ ret = dst + size
      /\ tret = dst + size

C5_Witness ==
  /\ op = "store"
  /\ dst > 0
  /\ defn.width = 16
  /\ defn.Rin
  /\ mem[dst] # mem[dst + 1]
  /\ mem[dst] = ByteOf(sum, 0)

Below(w) == 0..(w - 1)

\* C7: after any sequence of appends the running register, bit-level or
\* table-driven, is below 2^width, and so is every finalize result; poly, init
\* and xorout are reduced modulo 2^width, an Init or XorOut of -1 to 2^width - 1.
C7_Masked ==
  /\ crc \subseteq Below(defn.width)
  /\ tcrc \subseteq Below(defn.width)
  /\ sum \subseteq Below(defn.width)
  /\ tsum \subseteq Below(defn.width)
  /\ crc_poly(defn) = defn.Poly \cap Below(defn.width)
  /\ crc_init(defn) = defn.Init \cap Below(defn.width)
  /\ crc_xorout(defn) = defn.XorOut \cap Below(defn.width)
  /\ defn.Init = AllOnes => crc_init(defn) = Below(defn.width)
  /\ defn.XorOut = AllOnes => crc_xorout(defn) = Below(defn.width)

C7_Witness ==
  /\ op = "finalize"
  /\ pos = 2
  /\ defn.width = 12
  /\ defn.Init = AllOnes
  /\ defn.XorOut = AllOnes
  /\ 11 \in crc
  /\ 11 \in tcrc
  /\ 11 \in sum

\* C8: append over an empty range returns the register it was given, for the
\* Definition and for the Tabler, so that finalizing after it is finalizing
\* the initial value.
C8_EmptyAppend ==
  /\ (op = "append" /\ arg = 0) => (crc = prev /\ tcrc = tprev)
  /\ (op = "finalize" /\ pos = 0) =>
       /\ sum = crc_finalize(defn, crc_init(defn))
       /\ tsum = Tabler_finalize(defn, Tabler_make_init(defn))

C8_Witness ==
  /\ op = "append"
  /\ arg = 0
  /\ pos > 0
  /\ crc # crc_init(defn)
  /\ tcrc # Tabler_make_init(defn)

\* C9: CRC32 over "123456789" is 0xCBF43926, bit-level and with its Tabler.
C9_CRC32Check ==
  (defn = CRC32 /\ msg = check_dat /\ MessageFinalized) =>
    /\ sum = Hex(<<12, 11, 15, 4, 3, 9, 2, 6>>)
    /\ tsum = Hex(<<12, 11, 15, 4, 3, 9, 2, 6>>)

C9_Witness ==
  /\ defn = CRC32
  /\ defn.width = 32 /\ defn.Rin /\ defn.Rout
  /\ msg = check_dat
  /\ MessageFinalized
  /\ pos = 9

\* C10: the cross-endian 12-bit Definition (poly 0x80F, refin false, refout
\* true, init 0, xorout 0) over "123456789" gives 0xDAF, bit-level and with
\* its Tabler.
C10_CRC12Check ==
  (defn = CRC12_x3GPP /\ msg = check_dat /\ MessageFinalized) =>
    /\ sum = Hex(<<13, 10, 15>>)
    /\ tsum = Hex(<<13, 10, 15>>)

C10_Witness ==
  /\ defn = CRC12_x3GPP
  /\ defn.width = 12 /\ ~defn.Rin /\ defn.Rout
  /\ msg = check_dat
  /\ MessageFinalized
  /\ pos = 9


-----------------------------------------------------------------------------
\* Claims about reflect and about the shared Tabler.

\* C4: reflect(v, n) is below 2^n and its bit i is bit n-1-i of v, whatever
\* bits v has at n and above; for v below 2^n reflecting twice gives v back.
C4_ReflectInvolution ==
  /\ rfpc \in {"once", "twice"} =>
       /\ rfout \subseteq Below(rfn)
       /\ \A i \in Below(rfn) : (i \in rfout) <=> ((rfn - 1 - i) \in rfv)
  /\ (rfpc = "twice" /\ rfv \subseteq Below(rfn)) => rfback = rfv

C4_Witness ==
  /\ rfpc = "twice"
  /\ rfn = 64
  /\ rfv = Hex(<<4, 2, 15, 0, 14, 1, 14, 11, 10, 9, 14, 10, 3, 6, 9, 3>>)
  /\ rfout = Hex(<<12, 9, 6, 12, 5, 7, 9, 5, 13, 7, 8, 7, 0, 15, 4, 2>>)
  /\ rfback = rfv

\* The checksum a thread holds once it has finalized is the checksum of its
\* data computed with no other thread, and the buffer it stored to holds it.
ThreadsAgreeWithAlone ==
  \A t \in DOMAIN tpc :
    /\ tpc[t] # "append" => tres[t] = alone[t]
    /\ tpc[t] = "stored" =>
         tbuf[t] = Tabler_store(defn, alone[t],
                                [i \in 0..(crc_size(defn) - 1) |-> 0], 0).mem

\* C6: threads that share one Tabler and interleave their appends, each with
\* its own register and data, each get the checksum they get alone, and no
\* step changes the table.
C6_SharedTabler == []ThreadsAgreeWithAlone /\ [][table' = table]_vars

C6_Witness ==
  /\ tpc[1] = "final"
  /\ tpc[2] = "append"
  /\ tpos[2] = 1
  /\ tdata[1] # tdata[2]
  /\ tres[1] = alone[1]
  /\ treg[2] # Tabler_make_init(defn)
  /\ alone[1] # alone[2]

-----------------------------------------------------------------------------
\* Further catalogue checks.

\* C11: the X.25 Definition (width 16, poly 0x1021, refin and refout true,
\* init and xorout 0xFFFF) over "123456789" gives 0x906E, bit-level and with
\* its Tabler.
C11_X25Check ==
  (defn = CRC16_X25 /\ msg = check_dat /\ MessageFinalized) =>
    /\ sum = Hex(<<9, 0, 6, 14>>)
    /\ tsum = Hex(<<9, 0, 6, 14>>)

C11_Witness ==
  /\ defn = CRC16_X25
  /\ defn.width = 16 /\ defn.Rin /\ defn.Rout
  /\ crc_poly(defn) = Hex(<<1, 0, 2, 1>>)
  /\ crc_init(defn) = Below(16) /\ crc_xorout(defn) = Below(16)
  /\ msg = check_dat
  /\ MessageFinalized
  /\ pos = 9

\* C12: the table of the CRC32 Definition has 256 entries, entry 0 is 0,
\* entry 1 is 0x77073096 and entry 255 is 0x2D02EF8D; entry i is the reflected
\* result of folding octet i into a zero register.
C12_CRC32Table ==
  defn = CRC32 =>
    /\ DOMAIN table = 0..255
    /\ table[0] = {}
    /\ table[1] = Hex(<<7, 7, 0, 7, 3, 0, 9, 6>>)
    /\ table[255] = Hex(<<2, 13, 0, 2, 14, 15, 8, 13>>)
    /\ \A i \in 0..255 :
         table[i] = reverse_low_bits(crc_append(defn, <<i>>, {}), 32)

C12_Witness ==
  /\ defn = CRC32
  /\ op = "append"
  /\ pos = 1
  /\ table[1] = Hex(<<7, 7, 0, 7, 3, 0, 9, 6>>)
  /\ tcrc = Xor(table[ToOctet(Xor(tprev, OctetBits(49)))], Shr(tprev, 8))

-----------------------------------------------------------------------------
(* rr_adaptor of pabigot/container.hpp: a round-robin buffer over count_   *)
(* values the caller owns.  size_type is uint16_t.                         *)

EMPTY_HEAD == 65535

\* conversion to size_type (uint16_t) and to ssize_type (int16_t)
U16(x) == x % 65536

S16(x) == IF U16(x) >= 32768 THEN U16(x) - 65536 ELSE U16(x)

\* rr_adaptor::next_index_
next_index_(count, v) ==
  LET v1 == U16(v + 1)
  IN  IF v1 >= count THEN 0 ELSE v1

\* rr_adaptor::empty
rr_empty(head) == head = EMPTY_HEAD

\* rr_adaptor::size
rr_size(count, head, tail) ==
  IF rr_empty(head) THEN 0
  ELSE LET n == S16(head - tail)
       IN  U16(IF 0 >= n THEN S16(n + count) ELSE n)

\* rr_adaptor::max_size
rr_max_size(count) == count

\* rr_adaptor::full
rr_full(count, head, tail) == rr_size(count, head, tail) = rr_max_size(count)

\* rr_adaptor::pop that steps tail_ on an empty buffer too
rr_pop_steps_when_empty(count, data, head, tail) ==
  LET nt == next_index_(count, tail)
  IN  IF rr_empty(head) THEN [head |-> head, tail |-> nt, rv |-> 0]
      ELSE [head |-> IF head = nt THEN EMPTY_HEAD ELSE head,
            tail |-> nt,
            rv |-> data[tail]]

\* rr_adaptor::pop: the head_, the tail_ and the value returned.  An empty
\* buffer returns value_type{}.
rr_pop(count, data, head, tail) ==
  IF rr_empty(head) THEN [head |-> head, tail |-> tail, rv |-> 0]
  ELSE LET nt == next_index_(count, tail)
       IN  [head |-> IF head = nt THEN EMPTY_HEAD ELSE head,
            tail |-> nt,
            rv |-> data[tail]]

\* rr_adaptor::push: the fields after the call and the value returned.  The
\* store data_[head_] = v goes to rrdata when head_ is one of the count_
\* values and is recorded as a store outside them otherwise.
rr_push(count, data, head, tail, wild, v) ==
  LET s1 == IF rr_empty(head) THEN [head |-> 0, tail |-> 0, rv |-> FALSE]
            ELSE IF tail = head
                   THEN [rr_pop(count, data, head, tail) EXCEPT !.rv = TRUE]
                   ELSE [head |-> head, tail |-> tail, rv |-> FALSE]
      nh == next_index_(count, s1.head)
  IN  [head |-> nh,
       tail |-> s1.tail,
       data |-> IF s1.head \in DOMAIN data THEN [data EXCEPT ![s1.head] = v]
                ELSE data,
       wild |-> IF s1.head \in DOMAIN data THEN wild
                ELSE wild \cup {<<s1.head, v>>},
       rv |-> s1.rv]

MaxCount == 3

RRValues == {1, 2, 3}

\* The values the buffer holds, in the order pops would return them
rr_contents ==
  [i \in 1..rr_size(rrcount, rrhead, rrtail) |->
     rrdata[(rrtail + i - 1) % rrcount]]

\* rr_adaptor(data, count): the values are the caller's and are not read
\* before a push has stored to them.
RRInit ==
  /\ rrcount \in 1..MaxCount
  /\ rrdata = [i \in 0..(rrcount - 1) |-> 0]
  /\ rrhead = EMPTY_HEAD
  /\ rrtail = 0
  /\ rrwild = {}
  /\ rrfifo = <<>>
  /\ rrprev = <<>>
  /\ rrop = "none"
  /\ rrdiscard = FALSE
  /\ rrpopped = 0
  /\ rrret = 0
  /\ rrstored = 0
  /\ NoTabler
  /\ NoCaller
  /\ NoReflect
  /\ NoThreads
  /\ NoChain
  /\ NoIter
  /\ NoOctets
  /\ NoUuid
  /\ NoStore

RRPush(v) ==
  /\ LET r == rr_push(rrcount, rrdata, rrhead, rrtail, rrwild, v)
     IN  /\ rrhead' = r.head
         /\ rrtail' = r.tail
         /\ rrdata' = r.data
         /\ rrwild' = r.wild
         /\ rrdiscard' = r.rv
  /\ rrfifo' = Append(IF Len(rrfifo) = rrcount THEN Tail(rrfifo) ELSE rrfifo, v)
  /\ rrstored' = Len(rrfifo')
  /\ rrprev' = rrfifo
  /\ rrop' = "push"
  /\ UNCHANGED <<rrcount, rrpopped, rrret>>
  /\ UNCHANGED <<tablerVars, callerVars, reflVars, threadVars, fcVars, itVars, ohVars, uuVars, shVars>>

RRPop ==
  /\ LET r == rr_pop(rrcount, rrdata, rrhead, rrtail)
     IN  /\ rrhead' = r.head
         /\ rrtail' = r.tail
         /\ rrpopped' = r.rv
  /\ rrfifo' = IF rrfifo = <<>> THEN rrfifo ELSE Tail(rrfifo)
  /\ rrstored' = Len(rrfifo')
  /\ rrprev' = rrfifo
  /\ rrop' = "pop"
  /\ UNCHANGED <<rrcount, rrdata, rrwild, rrdiscard, rrret>>
  /\ UNCHANGED <<tablerVars, callerVars, reflVars, threadVars, fcVars, itVars, ohVars, uuVars, shVars>>

\* rr_adaptor::clear
RRClear ==
  /\ rrhead' = EMPTY_HEAD
  /\ rrfifo' = <<>>
  /\ rrstored' = 0
  /\ rrprev' = rrfifo
  /\ rrop' = "clear"
  /\ UNCHANGED <<rrcount, rrdata, rrtail, rrwild, rrdiscard, rrpopped, rrret>>
  /\ UNCHANGED <<tablerVars, callerVars, reflVars, threadVars, fcVars, itVars, ohVars, uuVars, shVars>>

RRNext ==
  \/ \E v \in RRValues : RRPush(v)
  \/ RRPop
  \/ RRClear

SpecRR == RRInit /\ [][RRNext]_vars

\* C13: push returns true iff the buffer was full, and then the oldest value
\* is discarded and the new one stored; pop returns the values in the order
\* they were pushed, the most recent max_size() at most.
C13_PushPopOrder ==
  /\ rrop = "push" =>
       /\ rrdiscard = (Len(rrprev) = rr_max_size(rrcount))
       /\ rr_contents = rrfifo
  /\ (rrop = "pop" /\ rrprev # <<>>) =>
       /\ rrpopped = Head(rrprev)
       /\ rr_contents = rrfifo
  /\ Len(rrfifo) <= rr_max_size(rrcount)

-----------------------------------------------------------------------------
(* forward_chain of pabigot/container.hpp.  Values are the addresses       *)
(* 1..NObj; a pointer is a value, nullptr or unlinked_ptr().  A chain is   *)
(* its front_ and back_; the link fields live in the values.  An operator  *)
(* takes the link fields nx and the chain's fr and bk and gives those      *)
(* after the call, with the pointer returned in rv.                        *)

nullptr == 0

UNLINKED_PTR == -1

NObj == 3

Values == 1..NObj

Chains == {1, 2}

\* forward_chain::unlinked_ptr and is_unlinked(ptr)
unlinked_ptr == UNLINKED_PTR

is_unlinked(ptr) == unlinked_ptr = ptr

\* A pointer to a pointer, `&front_` or `&ref_next(v)`: 0 stands for the
\* first, v for the second.
Deref(nx, fr, pp) == IF pp = 0 THEN fr ELSE nx[pp]

\* forward_chain::empty
fc_empty(fr) == fr = nullptr

\* forward_chain::link_front
link_front(nx, fr, bk, value) ==
  [nx |-> [nx EXCEPT ![value] = fr],
   fr |-> value,
   bk |-> IF fc_empty(fr) THEN value ELSE bk,
   rv |-> nullptr]

\* forward_chain::unlink_front that leaves the link of the value removed as
\* it was
unlink_front_keeps_link(nx, fr, bk) ==
  IF fr # nullptr
    THEN [nx |-> nx,
          fr |-> nx[fr],
          bk |-> IF bk = fr THEN nullptr ELSE bk,
          rv |-> fr]
    ELSE [nx |-> nx, fr |-> fr, bk |-> bk, rv |-> fr]

\* forward_chain::unlink_front
unlink_front(nx, fr, bk) ==
  IF fr # nullptr
    THEN [nx |-> [nx EXCEPT ![fr] = unlinked_ptr],
          fr |-> nx[fr],
          bk |-> IF bk = fr THEN nullptr ELSE bk,
          rv |-> fr]
    ELSE [nx |-> nx, fr |-> fr, bk |-> bk, rv |-> fr]

\* forward_chain::link_after
link_after(nx, fr, bk, pos_, value) ==
  LET nx1 == [nx EXCEPT ![value] = nx[pos_]]
  IN  [nx |-> [nx1 EXCEPT ![pos_] = value],
       fr |-> fr,
       bk |-> IF bk = pos_ THEN value ELSE bk,
       rv |-> nullptr]

\* forward_chain::link_back
link_back(nx, fr, bk, value) ==
  IF fc_empty(fr) THEN link_front(nx, fr, bk, value)
  ELSE LET nx1 == [nx EXCEPT ![value] = nullptr]
       IN  [nx |-> [nx1 EXCEPT ![bk] = value],
            fr |-> fr,
            bk |-> value,
            rv |-> nullptr]

\* forward_chain::link_before: the loop over npp, from `&front_`
RECURSIVE link_before_loop(_, _, _, _, _, _)
link_before_loop(nx, fr, bk, value, pred, npp) ==
  LET np == Deref(nx, fr, npp)
  IN  IF np = nullptr THEN link_back(nx, fr, bk, value)
      ELSE IF np \in pred
        THEN LET nx1 == [nx EXCEPT ![value] = np]
             IN  [nx |-> IF npp = 0 THEN nx1 ELSE [nx1 EXCEPT ![npp] = value],
                  fr |-> IF npp = 0 THEN value ELSE fr,
                  bk |-> bk,
                  rv |-> nullptr]
        ELSE link_before_loop(nx, fr, bk, value, pred, np)

\* forward_chain::link_before that links the value at the end whatever pred
\* is
link_before_at_back(nx, fr, bk, value, pred) == link_back(nx, fr, bk, value)

link_before(nx, fr, bk, value, pred) ==
  link_before_loop(nx, fr, bk, value, pred, 0)

\* The loop of split_through stopped at the first value
split_last_first(nx, pred, prev_) == prev_

\* forward_chain::split_through: the loop that finds the last value of the
\* leading run
RECURSIVE split_last(_, _, _)
split_last(nx, pred, prev_) ==
  IF nx[prev_] # nullptr /\ nx[prev_] \in pred THEN split_last(nx, pred, nx[prev_])
  ELSE prev_

\* forward_chain::split_through: sfr and sbk are the front_ and back_ of the
\* chain returned
split_through(nx, fr, bk, pred) ==
  IF fc_empty(fr) \/ fr \notin pred
    THEN [nx |-> nx, fr |-> fr, bk |-> bk, sfr |-> nullptr, sbk |-> nullptr]
    ELSE LET prev_ == split_last(nx, pred, fr)
         IN  [nx |-> [nx EXCEPT ![prev_] = nullptr],
              fr |-> nx[prev_],
              bk |-> IF nx[prev_] = nullptr THEN nullptr ELSE bk,
              sfr |-> fr,
              sbk |-> prev_]

\* forward_chain::unlink: the loop over lpp, from `&front_`, with prev_
RECURSIVE unlink_loop(_, _, _, _, _, _)
unlink_loop(nx, fr, bk, value, lpp, prev_) ==
  LET lp == Deref(nx, fr, lpp)
  IN  IF lp = nullptr THEN [nx |-> nx, fr |-> fr, bk |-> bk, rv |-> nullptr]
      ELSE IF value = lp
        THEN LET nx1 == IF lpp = 0 THEN nx ELSE [nx EXCEPT ![lpp] = nx[value]]
             IN  [nx |-> [nx1 EXCEPT ![value] = unlinked_ptr],
                  fr |-> IF lpp = 0 THEN nx[value] ELSE fr,
                  bk |-> IF value = bk THEN prev_ ELSE bk,
                  rv |-> value]
        ELSE unlink_loop(nx, fr, bk, value, lp, lp)

\* forward_chain::unlink that leaves back_ as it was
unlink_keeps_back(nx, fr, bk, value) ==
  [unlink_loop(nx, fr, bk, value, 0, nullptr) EXCEPT !.bk = bk]

unlink(nx, fr, bk, value) == unlink_loop(nx, fr, bk, value, 0, nullptr)

\* forward_chain::clear: the loop over p
RECURSIVE clear_loop(_, _)
clear_loop(nx, p) ==
  IF p = nullptr THEN nx
  ELSE clear_loop([nx EXCEPT ![p] = unlinked_ptr], nx[p])

clear(nx, fr, bk) ==
  [nx |-> clear_loop(nx, fr), fr |-> nullptr, bk |-> nullptr, rv |-> nullptr]

\* The values a chain links, in order: front_ and then the link fields, as
\* forward_chain::next gives them.
RECURSIVE Walk(_, _, _)
Walk(nx, p, fuel) ==
  IF p \notin Values \/ fuel = 0 THEN <<>>
  ELSE <<p>> \o Walk(nx, nx[p], fuel - 1)

Chain(c) == Walk(fcnext, fcfront[c], NObj + 1)

SeqSet(q) == {q[i] : i \in DOMAIN q}

InChain(v) == \E c \in Chains : v \in SeqSet(Chain(c))

\* Values constructed with their link field unlinked_ptr(), and
\* default-constructed chains.
ChainInit ==
  /\ fcnext = [v \in Values |-> unlinked_ptr]
  /\ fcfront = [c \in Chains |-> nullptr]
  /\ fcback = [c \in Chains |-> nullptr]
  /\ fcop = "none"
  /\ fcchain = 0
  /\ fcarg = 0
  /\ fcpos = 0
  /\ fcpred = {}
  /\ fcret = 0
  /\ fcwas = [c \in Chains |-> <<>>]
  /\ fcwasnext = fcnext
  /\ NoIter
  /\ NoTabler
  /\ NoCaller
  /\ NoReflect
  /\ NoThreads
  /\ NoRR
  /\ NoOctets
  /\ NoUuid
  /\ NoStore

\* A call on chain c that left the fields r; what the chains were is kept.
Called(c, name, value, pos_, pred, r) ==
  /\ fcnext' = r.nx
  /\ fcfront' = [fcfront EXCEPT ![c] = r.fr]
  /\ fcback' = [fcback EXCEPT ![c] = r.bk]
  /\ fcop' = name
  /\ fcchain' = c
  /\ fcarg' = value
  /\ fcpos' = pos_
  /\ fcpred' = pred
  /\ fcret' = r.rv
  /\ fcwas' = [d \in Chains |-> Chain(d)]
  /\ fcwasnext' = fcnext
  /\ UNCHANGED <<tablerVars, callerVars, reflVars, threadVars, rrVars, itVars, ohVars, uuVars, shVars>>

\* The caller links only values that are in no chain.
LinkFront(c, v) ==
  /\ ~InChain(v)
  /\ Called(c, "link_front", v, 0, {}, link_front(fcnext, fcfront[c], fcback[c], v))

LinkBack(c, v) ==
  /\ ~InChain(v)
  /\ Called(c, "link_back", v, 0, {}, link_back(fcnext, fcfront[c], fcback[c], v))

LinkAfter(c, p, v) ==
  /\ ~InChain(v)
  /\ p \in SeqSet(Chain(c))
  /\ Called(c, "link_after", v, p, {},
            link_after(fcnext, fcfront[c], fcback[c], p, v))

LinkBefore(c, v, pred) ==
  /\ ~InChain(v)
  /\ Called(c, "link_before", v, 0, pred,
            link_before(fcnext, fcfront[c], fcback[c], v, pred))

UnlinkFront(c) ==
  /\ c \in Chains
  /\ Called(c, "unlink_front", 0, 0, {}, unlink_front(fcnext, fcfront[c], fcback[c]))

Unlink(c, v) ==
  /\ c \in Chains
  /\ Called(c, "unlink", v, 0, {}, unlink(fcnext, fcfront[c], fcback[c], v))

Clear(c) ==
  /\ c \in Chains
  /\ Called(c, "clear", 0, 0, {}, clear(fcnext, fcfront[c], fcback[c]))

\* split_through on chain c; the chain returned is moved into the other
\* chain, which is empty.
SplitThrough(c, pred) ==
  LET o == 3 - c
      r == split_through(fcnext, fcfront[c], fcback[c], pred)
  IN  /\ fc_empty(fcfront[o])
      /\ fcnext' = r.nx
      /\ fcfront' = [fcfront EXCEPT ![c] = r.fr, ![o] = r.sfr]
      /\ fcback' = [fcback EXCEPT ![c] = r.bk, ![o] = r.sbk]
      /\ fcop' = "split_through"
      /\ fcchain' = c
      /\ fcarg' = 0
      /\ fcpos' = 0
      /\ fcpred' = pred
      /\ fcret' = 0
      /\ fcwas' = [d \in Chains |-> Chain(d)]
      /\ fcwasnext' = fcnext
      /\ UNCHANGED <<tablerVars, callerVars, reflVars, threadVars, rrVars, itVars, ohVars, uuVars, shVars>>

ChainNext ==
  \E c \in Chains :
    \/ \E v \in Values : LinkFront(c, v) \/ LinkBack(c, v) \/ Unlink(c, v)
    \/ \E v \in Values, p \in Values : LinkAfter(c, p, v)
    \/ \E v \in Values, pred \in SUBSET Values : LinkBefore(c, v, pred)
    \/ \E pred \in SUBSET Values : SplitThrough(c, pred)
    \/ UnlinkFront(c)
    \/ Clear(c)

SpecChain == ChainInit /\ [][ChainNext]_vars

\* The first and the last value of a sequence of values, null when empty
First(q) == IF q = <<>> THEN nullptr ELSE q[1]

Last(q) == IF q = <<>> THEN nullptr ELSE q[Len(q)]

\* front(), back() and the link of the last value agree with the values the
\* chain links.
EndsRight(c) ==
  /\ fcfront[c] = First(Chain(c))
  /\ fcback[c] = Last(Chain(c))
  /\ Chain(c) # <<>> => fcnext[Last(Chain(c))] = nullptr

\* C15: with links that start unlinked and callers that link only values in
\* no chain, is_unlinked(v) is true iff v is in no chain; unlink_front,
\* unlink and clear leave every value they removed unlinked, and every link
\* call leaves its value not unlinked.
C15_UnlinkedIffNoChain ==
  /\ \A v \in DOMAIN fcnext : is_unlinked(fcnext[v]) <=> ~InChain(v)
  /\ fcop \in {"unlink_front", "unlink", "clear"} =>
       \A v \in SeqSet(fcwas[fcchain]) \ SeqSet(Chain(fcchain)) :
         is_unlinked(fcnext[v])
  /\ fcop \in {"link_front", "link_back", "link_after", "link_before"} =>
       ~is_unlinked(fcnext[fcarg])

C15_Witness ==
  /\ fcop = "unlink_front"
  /\ Len(fcwas[fcchain]) = 2
  /\ fcret = fcwas[fcchain][1]
  /\ is_unlinked(fcnext[fcret])
  /\ ~is_unlinked(fcnext[fcwas[fcchain][2]])
  /\ \E v \in Values : InChain(v) /\ v \notin SeqSet(Chain(fcchain))

\* A sequence without the value v
Without(q, v) == SelectSeq(q, LAMBDA x : x # v)

\* C16: unlink(v) of a value in the chain returns v, removes v alone, keeps
\* the order of the others and front() and back() right; of a value not in
\* the chain it returns null and changes neither the chain nor v's link.
C16_Unlink ==
  fcop = "unlink" =>
    IF fcarg \in SeqSet(fcwas[fcchain])
      THEN /\ fcret = fcarg
           /\ Chain(fcchain) = Without(fcwas[fcchain], fcarg)
           /\ Len(Chain(fcchain)) = Len(fcwas[fcchain]) - 1
           /\ EndsRight(fcchain)
           /\ \A d \in Chains \ {fcchain} : Chain(d) = fcwas[d] /\ EndsRight(d)
      ELSE /\ fcret = nullptr
           /\ \A d \in Chains : Chain(d) = fcwas[d] /\ EndsRight(d)
           /\ fcnext = fcwasnext

C16_Witness ==
  /\ fcop = "unlink"
  /\ Len(fcwas[fcchain]) = 3
  /\ fcarg = fcwas[fcchain][3]
  /\ fcret = fcarg
  /\ fcback[fcchain] = fcwas[fcchain][2]
  /\ Chain(fcchain) = SubSeq(fcwas[fcchain], 1, 2)

\* The length of the longest leading run of q whose values satisfy pred
RECURSIVE LeadRun(_, _)
LeadRun(q, pred) ==
  IF q = <<>> \/ q[1] \notin pred THEN 0 ELSE 1 + LeadRun(Tail(q), pred)

\* C17: split_through(pred) returns the longest leading run of values that
\* satisfy pred, in order, and leaves the rest, in order; front(), back()
\* and the null link of the last value are right in both chains; nothing
\* changes when the chain is empty or its first value fails pred.
C17_SplitThrough ==
  fcop = "split_through" =>
    LET was == fcwas[fcchain]
        k == LeadRun(was, fcpred)
    IN  /\ Chain(3 - fcchain) = SubSeq(was, 1, k)
        /\ Chain(fcchain) = SubSeq(was, k + 1, Len(was))
        /\ EndsRight(fcchain)
        /\ EndsRight(3 - fcchain)
        /\ k = 0 => fcnext = fcwasnext

C17_Witness ==
  /\ fcop = "split_through"
  /\ Len(fcwas[fcchain]) = 3
  /\ fcwas[fcchain][2] \notin fcpred
  /\ fcwas[fcchain][3] \in fcpred
  /\ Len(Chain(3 - fcchain)) = 1
  /\ Len(Chain(fcchain)) = 2

\* The position of the first value of q that satisfies pred, Len(q) + 1 when
\* none does
RECURSIVE FirstSat(_, _)
FirstSat(q, pred) ==
  IF q = <<>> \/ q[1] \in pred THEN 1 ELSE 1 + FirstSat(Tail(q), pred)

Sorted(q) == \A i, j \in DOMAIN q : i < j => q[i] <= q[j]

\* C18: link_before(v, pred) puts v immediately before the first value that
\* satisfies pred, at the end when none does, keeps the order of the others
\* and back() at the last value; with pred 'greater than v' a sorted chain
\* stays sorted.
C18_LinkBefore ==
  fcop = "link_before" =>
    LET was == fcwas[fcchain]
        j == FirstSat(was, fcpred)
    IN  /\ Chain(fcchain) =
             SubSeq(was, 1, j - 1) \o <<fcarg>> \o SubSeq(was, j, Len(was))
        /\ EndsRight(fcchain)
        /\ \A d \in Chains \ {fcchain} : Chain(d) = fcwas[d] /\ EndsRight(d)
        /\ (Sorted(was) /\ fcpred = {x \in Values : x > fcarg}) =>
             Sorted(Chain(fcchain))

C18_Witness ==
  /\ fcop = "link_before"
  /\ fcwas[fcchain] = <<1, 3>>
  /\ fcarg = 2
  /\ fcpred = {3}
  /\ Chain(fcchain) = <<1, 2, 3>>

\* ---------------------------------------------------------------------------
\* forward_chain::chain_iterator_type and the range-for statement
\* ---------------------------------------------------------------------------

\* The chain a range-for statement iterates over
queue == 1

\* chain_iterator_type (const chain_type&): current and the cached next
chain_iterator_type(nx, fr) ==
  [current |-> fr, next |-> IF fr # nullptr THEN nx[fr] ELSE nullptr]

\* operator== (const end_iterator_type&)
operator_eq_end(current) == current = nullptr

\* operator++ that reads the link of the value it is leaving
operator_increment_uncached(nx, current, next) ==
  LET c == IF is_unlinked(nx[current]) THEN nullptr ELSE nx[current]
  IN  [current |-> c, next |-> IF c # nullptr THEN nx[c] ELSE nullptr]

\* operator++ (): advance to the cached successor, cache its successor
operator_increment(nx, current, next) ==
  IF next # nullptr
    THEN [current |-> next,
          next |-> IF is_unlinked(nx[next]) THEN nullptr ELSE nx[next]]
    ELSE [current |-> next, next |-> next]

\* Before the statement the caller fills the queue with link_back.
IterPopulate(v) ==
  /\ itpc = "idle"
  /\ LinkBack(queue, v)

\* for (auto& elt : queue): begin(); the body will unlink the values in drop
IterBegin(drop) ==
  LET it == chain_iterator_type(fcnext, fcfront[queue])
  IN  /\ itpc = "idle"
      /\ itpc' = "test"
      /\ itcurrent' = it.current
      /\ itnext' = it.next
      /\ itdrop' = drop
      /\ itorig' = Chain(queue)
      /\ itvisited' = <<>>
      /\ UNCHANGED <<tablerVars, callerVars, reflVars, threadVars, rrVars, fcVars, ohVars, uuVars, shVars>>

\* iter != end() holds: the body runs on *iter and may unlink it
IterBody ==
  LET elt == itcurrent
      r == unlink(fcnext, fcfront[queue], fcback[queue], elt)
  IN  /\ itpc = "test"
      /\ ~operator_eq_end(itcurrent)
      /\ itpc' = "incr"
      /\ itvisited' = Append(itvisited, elt)
      /\ IF elt \in itdrop
           THEN /\ fcnext' = r.nx
                /\ fcfront' = [fcfront EXCEPT ![queue] = r.fr]
                /\ fcback' = [fcback EXCEPT ![queue] = r.bk]
                /\ fcop' = "unlink"
                /\ fcchain' = queue
                /\ fcarg' = elt
                /\ fcpos' = 0
                /\ fcpred' = {}
                /\ fcret' = r.rv
                /\ fcwas' = [d \in Chains |-> Chain(d)]
                /\ fcwasnext' = fcnext
           ELSE UNCHANGED fcVars
      /\ UNCHANGED <<itcurrent, itnext, itdrop, itorig>>
      /\ UNCHANGED <<tablerVars, callerVars, reflVars, threadVars, rrVars, ohVars, uuVars, shVars>>

\* ++iter
IterIncr ==
  LET it == operator_increment(fcnext, itcurrent, itnext)
  IN  /\ itpc = "incr"
      /\ itpc' = "test"
      /\ itcurrent' = it.current
      /\ itnext' = it.next
      /\ UNCHANGED <<itdrop, itorig, itvisited>>
      /\ UNCHANGED <<tablerVars, callerVars, reflVars, threadVars, rrVars, fcVars, ohVars, uuVars, shVars>>

\* iter != end() fails: the statement is over
IterEnd ==
  /\ itpc = "test"
  /\ operator_eq_end(itcurrent)
  /\ itpc' = "done"
  /\ UNCHANGED <<itcurrent, itnext, itdrop, itorig, itvisited>>
  /\ UNCHANGED <<tablerVars, callerVars, reflVars, threadVars, rrVars, fcVars, ohVars, uuVars, shVars>>

IterLoop == IterBody \/ IterIncr \/ IterEnd

IterNext ==
  \/ \E v \in Values : IterPopulate(v)
  \/ \E drop \in SUBSET Values : IterBegin(drop)
  \/ IterLoop

\* The statement, once begun, keeps running: nothing else runs in its thread.
SpecIter == ChainInit /\ [][IterNext]_vars /\ WF_vars(IterLoop)

Kept(q, drop) == SelectSeq(q, LAMBDA x : x \notin drop)

\* C14: a range-for over a chain whose body unlinks the value it is visiting,
\* for any subset of the values, ends; when it has ended it has visited every
\* value of the original chain once, in order, and the chain holds exactly
\* the values that were not unlinked, in their order, with front() and back()
\* the first and last of them.
C14_RangeForUnlink ==
  /\ [](itpc = "done" =>
          /\ itvisited = itorig
          /\ Chain(queue) = Kept(itorig, itdrop)
          /\ fcfront[queue] = First(Kept(itorig, itdrop))
          /\ fcback[queue] = Last(Kept(itorig, itdrop))
          /\ \A v \in SeqSet(itorig) \cap itdrop : is_unlinked(fcnext[v]))
  /\ (itpc = "test" ~> itpc = "done")

C14_Witness ==
  /\ itpc = "done"
  /\ itorig = <<3, 1, 2>>
  /\ itdrop = {1, 2}
  /\ itvisited = <<3, 1, 2>>
  /\ Chain(queue) = <<3>>

\* ---------------------------------------------------------------------------
\* octets_helper
\* ---------------------------------------------------------------------------

\* Largest octet count of the referenced buffer
MaxSize == 3

\* Address of the first octet of a buffer that exists
BufferAt == 16

\* Octets a caller appends
Fill == {1, 2}

\* The helper's fields
Helper(b, e, bp) == [begin_ |-> b, end_ |-> e, bp_ |-> bp]

\* memset(p, 0, n)
memset0(m, p, n) ==
  [a \in DOMAIN m |-> IF p <= a /\ a < p + n THEN 0 ELSE m[a]]

\* memmove(dp, sp, span) from the octets src
memmove(m, dp, src) ==
  [a \in DOMAIN m |->
     IF dp <= a /\ a < dp + Len(src) THEN src[a - dp + 1] ELSE m[a]]

\* reset() that leaves the octets as they are
oh_reset_keeps_octets(o, m) ==
  [o |-> [o EXCEPT !.bp_ = o.begin_], m |-> m]

\* reset ()
oh_reset(o, m) ==
  [o |-> [o EXCEPT !.bp_ = o.begin_],
   m |-> IF o.begin_ # nullptr THEN memset0(m, o.begin_, o.end_ - o.begin_)
         ELSE m]

\* valid ()
oh_valid(o) == o.bp_ # nullptr

\* invalidate ()
oh_invalidate(o) == [o EXCEPT !.bp_ = nullptr]

\* begin ()
oh_begin(o) == IF o.bp_ # nullptr THEN o.begin_ ELSE nullptr

\* end ()
oh_end(o) == IF o.bp_ # nullptr THEN o.bp_ ELSE nullptr

\* size ()
oh_size(o) == IF o.bp_ # nullptr THEN o.bp_ - o.begin_ ELSE 0

\* available ()
oh_available(o) == IF o.bp_ # nullptr THEN o.end_ - o.bp_ ELSE 0

\* max_size ()
oh_max_size(o) == o.end_ - o.begin_

\* can_advance (s).  A size_type is written as the integer nearest zero that
\* equals it modulo 2^N, so a negative s is an s above every buffer size.
oh_can_advance(o, s) ==
  IF o.bp_ # nullptr THEN s >= 0 /\ o.end_ - o.bp_ >= s ELSE FALSE

\* advance() that stops at the end of the buffer when s is too large
oh_advance_clamps(o, s) ==
  IF oh_can_advance(o, s)
    THEN [o |-> [o EXCEPT !.bp_ = o.bp_ + s], rv |-> o.bp_]
    ELSE [o |-> [o EXCEPT !.bp_ = IF o.bp_ # nullptr THEN o.end_ ELSE nullptr],
          rv |-> nullptr]

\* advance (s)
oh_advance(o, s) ==
  IF oh_can_advance(o, s)
    THEN [o |-> [o EXCEPT !.bp_ = o.bp_ + s], rv |-> o.bp_]
    ELSE [o |-> [o EXCEPT !.bp_ = nullptr], rv |-> nullptr]

\* append (sp, span), the octets at sp being src
oh_append(o, m, src) ==
  LET a == oh_advance(o, Len(src))
  IN  [o |-> a.o,
       m |-> IF a.rv # nullptr THEN memmove(m, a.rv, src) ELSE m,
       rv |-> oh_valid(a.o)]

obj == Helper(ohbegin, ohend, ohbp)

\* octets_helper (begin, count) over a buffer of count octets of any content,
\* or over no buffer
OctetsInit ==
  /\ \E count \in 0..MaxSize :
       \E b \in {nullptr, BufferAt} :
         \E m \in [b..(b + count - 1) -> Fill \cup {0}] :
           LET r == oh_reset(Helper(b, b + count, nullptr), m)
           IN  /\ b = nullptr => count = 0
               /\ ohbegin = r.o.begin_
               /\ ohend = r.o.end_
               /\ ohbp = r.o.bp_
               /\ ohbuf = r.m
  /\ ohop = "octets_helper"
  /\ ohs = 0
  /\ ohret = 0
  /\ ohwasbp = nullptr
  /\ ohwasbuf = ohbuf
  /\ ohbad = FALSE
  /\ NoTabler
  /\ NoCaller
  /\ NoReflect
  /\ NoThreads
  /\ NoRR
  /\ NoChain
  /\ NoIter
  /\ NoUuid
  /\ NoStore

\* A call on the helper: the fields and octets it leaves, what it returned,
\* and whether it was one that asked for too much or invalidated.
OctetsCalled(name, s, o, m, rv, bad) ==
  /\ ohbp' = o.bp_
  /\ ohbuf' = m
  /\ ohop' = name
  /\ ohs' = s
  /\ ohret' = rv
  /\ ohwasbp' = ohbp
  /\ ohwasbuf' = ohbuf
  /\ ohbad' = bad
  /\ UNCHANGED <<ohbegin, ohend>>
  /\ UNCHANGED <<tablerVars, callerVars, reflVars, threadVars, rrVars, fcVars, itVars, uuVars, shVars>>

OctetsAdvance(s) ==
  LET r == oh_advance(obj, s)
  IN  /\ s \in 0..(MaxSize + 1)
      /\ OctetsCalled("advance", s, r.o, ohbuf, r.rv,
                      ohbad \/ s > oh_available(obj))

OctetsCanAdvance(s) ==
  /\ s \in 0..(MaxSize + 1)
  /\ OctetsCalled("can_advance", s, obj, ohbuf, oh_can_advance(obj, s), ohbad)

OctetsAppend(src) ==
  LET r == oh_append(obj, ohbuf, src)
  IN  /\ Len(src) \in 0..(MaxSize + 1)
      /\ OctetsCalled("append", Len(src), r.o, r.m, r.rv,
                      ohbad \/ Len(src) > oh_available(obj))

\* invalidate() and reset() on a constructed helper
OctetsInvalidate ==
  /\ ohop # "none"
  /\ OctetsCalled("invalidate", 0, oh_invalidate(obj), ohbuf, 0, TRUE)

OctetsReset ==
  LET r == oh_reset(obj, ohbuf)
  IN  /\ ohop # "none"
      /\ OctetsCalled("reset", 0, r.o, r.m, 0, FALSE)

\* The octets a caller appends: one value repeated
Source(n, v) == [i \in 1..n |-> v]

OctetsNext ==
  \/ \E s \in 0..(MaxSize + 1) : OctetsAdvance(s) \/ OctetsCanAdvance(s)
  \/ \E n \in 0..(MaxSize + 1), v \in Fill : OctetsAppend(Source(n, v))
  \/ OctetsInvalidate
  \/ OctetsReset

SpecOctets == OctetsInit /\ [][OctetsNext]_vars

\* C19: over a non-null buffer, valid() is false exactly when since
\* construction or the last reset() an advance() or append() asked for more
\* than available() or invalidate() was called; can_advance() changes neither
\* validity nor anything else of the helper; on an invalid helper advance()
\* returns null, append() returns false, the octets stay as they are and the
\* helper stays invalid; reset() leaves the helper valid with size() = 0,
\* available() = max_size() and every octet of the buffer zero.
C19_Validity ==
  /\ [](ohbegin # nullptr => (oh_valid(obj) <=> ~ohbad))
  /\ [][(ohbegin # nullptr /\ ohop' = "can_advance") =>
          /\ oh_valid(obj)' <=> oh_valid(obj)
          /\ ohbp' = ohbp
          /\ ohbuf' = ohbuf]_vars
  /\ [][(ohbegin # nullptr /\ ~oh_valid(obj) /\ ohop' \in {"advance", "append"}) =>
          /\ ohop' = "advance" => ohret' = nullptr
          /\ ohop' = "append" => ohret' = FALSE
          /\ ohbuf' = ohbuf
          /\ ~oh_valid(obj)']_vars
  /\ [][(ohbegin # nullptr /\ ohop' = "reset") =>
          /\ oh_valid(obj)'
          /\ oh_size(obj)' = 0
          /\ oh_available(obj)' = oh_max_size(obj)'
          /\ oh_max_size(obj)' = oh_max_size(obj)
          /\ \A a \in ohbegin..(ohend - 1) : ohbuf'[a] = 0]_vars

\* reset() has revived an invalid helper
\* whose buffer held octets that were not zero
C19_Witness ==
  /\ ohbegin # nullptr
  /\ ohop = "reset"
  /\ ohwasbp = nullptr
  /\ \E a \in DOMAIN ohwasbuf : ohwasbuf[a] # 0
  /\ ohbp = ohbegin
  /\ ~ohbad

\* C20: advance(s) on a valid helper with s > available() returns null, and
\* afterwards valid() is false, begin() and end() are null, size() and
\* available() are 0, max_size() and the octets are as before; with
\* s <= available() it returns the old end() and size() grows by s, the helper
\* stays valid and the octets are as before.
C20_Advance ==
  [][(ohop' = "advance" /\ oh_valid(obj)) =>
       IF ohs' > oh_available(obj)
         THEN /\ ohret' = nullptr
              /\ ~oh_valid(obj)'
              /\ oh_begin(obj)' = nullptr
              /\ oh_end(obj)' = nullptr
              /\ oh_size(obj)' = 0
              /\ oh_available(obj)' = 0
              /\ oh_max_size(obj)' = oh_max_size(obj)
              /\ ohbuf' = ohbuf
         ELSE /\ ohret' = oh_end(obj)
              /\ oh_valid(obj)'
              /\ oh_begin(obj)' = oh_begin(obj)
              /\ oh_end(obj)' = oh_end(obj) + ohs'
              /\ oh_size(obj)' = oh_size(obj) + ohs'
              /\ oh_available(obj)' = oh_available(obj) - ohs'
              /\ oh_max_size(obj)' = oh_max_size(obj)
              /\ ohbuf' = ohbuf]_vars

\* advance() asked for one octet more than the partly filled buffer had left
C20_Witness ==
  /\ ohop = "advance"
  /\ ohwasbp > ohbegin
  /\ ohwasbp < ohend
  /\ ohs = ohend - ohwasbp + 1
  /\ ohret = nullptr
  /\ ohbp = nullptr
  /\ \E a \in DOMAIN ohbuf : ohbuf[a] # 0

\* advance() reserved the rest of a partly filled buffer
C20_WitnessFits ==
  /\ ohop = "advance"
  /\ ohwasbp > ohbegin
  /\ ohs = ohend - ohwasbp
  /\ ohs > 0
  /\ ohret = ohwasbp
  /\ ohbp = ohend

\* ---------------------------------------------------------------------------
\* rr_adaptor: pop of an empty buffer, and size() over buffers of any count
\* ---------------------------------------------------------------------------

\* C24: pop() on an empty buffer returns value_type{} and changes neither
\* head_, tail_ nor a stored value; the buffer stays empty, and a push on it
\* leaves what a push on a newly constructed buffer leaves: head_, tail_, the
\* value returned and the value stored.
C24_PopEmpty ==
  /\ [][(rr_empty(rrhead) /\ rrop' = "pop") =>
          /\ rrpopped' = 0
          /\ rrhead' = rrhead
          /\ rrtail' = rrtail
          /\ rrdata' = rrdata
          /\ rrwild' = rrwild
          /\ rr_empty(rrhead')]_vars
  /\ [](rr_empty(rrhead) =>
          \A v \in RRValues :
            LET a == rr_push(rrcount, rrdata, rrhead, rrtail, rrwild, v)
                b == rr_push(rrcount, rrdata, EMPTY_HEAD, 0, rrwild, v)
            IN  /\ a = b
                /\ a.data[a.tail] = v
                /\ rr_size(rrcount, a.head, a.tail) = 1)

\* pop() on a buffer that values had passed through and that was empty again
C24_Witness ==
  /\ rrop = "pop"
  /\ rrprev = <<>>
  /\ rrpopped = 0
  /\ rr_empty(rrhead)
  /\ rrtail # 0
  /\ \E i \in DOMAIN rrdata : rrdata[i] # 0

\* Element counts near the ends of size_type and ssize_type
LargeCounts == {32767, 32768, 40000, 65535}

RRCounts == (1..MaxCount) \cup LargeCounts

\* How many pushes, and how many pops after them, a caller has made
RRSteps(count) == {0, 1, 2, 32767, 32768, count - 1, count} \cap (0..count)

\* A buffer over count elements after k <= count pushes and then j <= k pops:
\* each push steps head_ from 0 and each pop steps tail_ from 0, both with
\* next_index_, and the pop that takes the last value marks head_ empty.  The
\* elements are not read by size(), empty(), full() or max_size() and are
\* left out.
RRObservedInit ==
  /\ \E count \in RRCounts :
       \E k \in RRSteps(count) :
         \E j \in {i \in RRSteps(count) : i <= k} :
           /\ rrcount = count
           /\ rrhead = IF k = 0 \/ j = k THEN EMPTY_HEAD
                       ELSE IF k >= count THEN 0 ELSE k
           /\ rrtail = IF j >= count THEN 0 ELSE j
           /\ rrstored = k - j
  /\ rrdata = <<>>
  /\ rrwild = {}
  /\ rrfifo = <<>>
  /\ rrprev = <<>>
  /\ rrop = "none"
  /\ rrdiscard = FALSE
  /\ rrpopped = 0
  /\ rrret = 0
  /\ NoTabler
  /\ NoCaller
  /\ NoReflect
  /\ NoThreads
  /\ NoChain
  /\ NoIter
  /\ NoOctets
  /\ NoUuid
  /\ NoStore

\* A call of a const member function and what it returned
RRObserved(name, r) ==
  /\ rrop' = name
  /\ rrret' = r
  /\ UNCHANGED <<rrcount, rrdata, rrhead, rrtail, rrwild, rrfifo, rrprev,
                 rrdiscard, rrpopped, rrstored>>
  /\ UNCHANGED <<tablerVars, callerVars, reflVars, threadVars, fcVars, itVars, ohVars, uuVars, shVars>>

RRSize ==
  /\ rrop # "size"
  /\ RRObserved("size", rr_size(rrcount, rrhead, rrtail))

RREmpty ==
  /\ rrop # "empty"
  /\ RRObserved("empty", rr_empty(rrhead))

RRFull ==
  /\ rrop # "full"
  /\ RRObserved("full", rr_full(rrcount, rrhead, rrtail))

RRMaxSize ==
  /\ rrop # "max_size"
  /\ RRObserved("max_size", rr_max_size(rrcount))

RRObservedNext == RRSize \/ RREmpty \/ RRFull \/ RRMaxSize \/ RRClear

SpecRRObserved == RRObservedInit /\ [][RRObservedNext]_vars

\* C23: over count >= 1 elements max_size() is count, size() is the number of
\* values the buffer holds and lies in 0..count, empty() holds iff size() is 0,
\* full() holds iff size() is count, and clear() leaves the buffer empty.
C23_SizeInvariants ==
  LET size == rr_size(rrcount, rrhead, rrtail)
  IN  /\ rr_max_size(rrcount) = rrcount
      /\ size = rrstored
      /\ 0 <= size /\ size <= rrcount
      /\ rr_empty(rrhead) <=> size = 0
      /\ rr_full(rrcount, rrhead, rrtail) <=> size = rrcount
      /\ rrop = "clear" => rr_empty(rrhead) /\ size = 0
      /\ rrop = "size" => rrret = rrstored
      /\ rrop = "empty" => rrret = (rrstored = 0)
      /\ rrop = "full" => rrret = (rrstored = rrcount)
      /\ rrop = "max_size" => rrret = rrcount

\* ---------------------------------------------------------------------------
\* The Tabler's register and the Definition's register
\* ---------------------------------------------------------------------------

\* C26: for every Definition of width >= 8 and every byte sequence, the
\* Tabler's unfinalized register after appending the sequence from
\* Tabler::init is the Definition's unfinalized register after appending the
\* same sequence from init, bit-reversed over width when refin is set and as
\* it is otherwise; before any octet that is Tabler::init = reflect(init)
\* when refin, init otherwise.  The octets the two have consumed are the
\* same as long as the checksums stored behind the message are.
C26_RegisterRefinement ==
  (defn.width >= 8 /\ Range(tmem, 0, pos) = Range(mem, 0, pos)) =>
    /\ tcrc = (IF defn.Rin THEN reverse_low_bits(crc, defn.width) ELSE crc)
    /\ pos = 0 =>
         /\ crc = crc_init(defn)
         /\ tcrc = (IF defn.Rin THEN base_crc_reflect(defn, crc_init(defn))
                    ELSE crc_init(defn))

\* Both registers after the two octets of a message appended one at a time,
\* reflected input, a register wider than the table index
C26_Witness ==
  /\ defn.width = 12
  /\ defn.Rin
  /\ defn.Init = AllOnes
  /\ msg = <<49, 200>>
  /\ pos = 2
  /\ op = "append"
  /\ arg = 1
  /\ tcrc # crc
  /\ tcrc = reverse_low_bits(crc, 12)

\* ---------------------------------------------------------------------------
\* uuid16_type and uuid128_type of pabigot/ble.hpp.  A UUID is its octets,
\* indexed from 0 as the std::array is.  An integer lies in the host's memory
\* least significant octet first on a little-endian host, most significant
\* first on a big-endian one.
\* ---------------------------------------------------------------------------

\* byteswap of a 16-bit value
byteswap16(v) == (v % 256) * 256 + (v \div 256)

\* host_x_le of a 16-bit value
host_x_le16(little, v) == IF little THEN v ELSE byteswap16(v)

\* The octets of a 16-bit integer in memory, and the integer of two octets
InMemory16(little, v) ==
  IF little THEN [i \in 0..1 |-> IF i = 0 THEN v % 256 ELSE v \div 256]
  ELSE [i \in 0..1 |-> IF i = 0 THEN v \div 256 ELSE v % 256]

FromMemory16(little, a) ==
  IF little THEN a[0] + 256 * a[1] ELSE 256 * a[0] + a[1]

\* uuid16_type (integer_type src)
uuid16_type(little, src) == InMemory16(little, host_x_le16(little, src))

\* details::to_integer of a uuid16_type
to_integer16(little, uuid) == host_x_le16(little, FromMemory16(little, uuid))

\* uuid128_type::from_uuid16 that stores the 16-bit UUID most significant
\* octet first
from_uuid16_swapped(self, uuid16) ==
  [i \in 0..15 |-> IF i = 12 THEN uuid16[1] ELSE IF i = 13 THEN uuid16[0]
                   ELSE self[i]]

\* uuid128_type::from_uuid16 (const uuid16_type&)
from_uuid16(self, uuid16) ==
  [i \in 0..15 |-> IF i \in 12..13 THEN uuid16[i - 12] ELSE self[i]]

\* uuid128_type::uuid16
uuid16(little, self) == to_integer16(little, [i \in 0..1 |-> self[12 + i]])

\* uuid128_type::base_match
base_match(self, other) ==
  /\ \A i \in 0..11 : self[i] = other[i]
  /\ \A i \in 14..15 : self[i] = other[i]

BLUETOOTH_BASE ==
  [i \in 0..15 |->
     <<251, 52, 155, 95, 128, 0, 0, 128, 0, 16, 0, 0, 0, 0, 0, 0>>[i + 1]]

UUID128_BRACE_INITIALIZER ==
  [i \in 0..15 |->
     <<86, 85, 84, 83, 82, 81, 66, 65, 50, 49, 34, 33, 20, 19, 18, 17>>[i + 1]]

\* The base UUIDs: the two above, all octets zero and all octets 0xFF
Bases ==
  {BLUETOOTH_BASE, UUID128_BRACE_INITIALIZER,
   [i \in 0..15 |-> 0], [i \in 0..15 |-> 255]}

\* 16-bit values: the ends, the one of the test (0xABCD), and values that
\* differ in one octet only
Uuid16Values == {0, 1, 256, 43981, 65280, 65535}

\* Octets a caller assigns through operator[], and where: the ends of the
\* two ranges base_match compares and the two octets between them
Assigned == {0, 18, 255}

AssignedAt == {0, 11, 12, 13, 14, 15}

\* How many octets of a derived UUID a caller overwrites
MaxEdits == 1

Differing(a, b) == {i \in 0..15 : a[i] # b[i]}

UuidInit ==
  /\ uulittle \in BOOLEAN
  /\ uubase \in Bases
  /\ uuval = uubase
  /\ uuu = 0
  /\ uuop = "uuid128_type"
  /\ uuret = 0
  /\ NoTabler
  /\ NoCaller
  /\ NoReflect
  /\ NoThreads
  /\ NoRR
  /\ NoChain
  /\ NoIter
  /\ NoOctets
  /\ NoStore

\* u16 = u128.from_uuid16(u)
FromUuid16(u) ==
  /\ uuval' = from_uuid16(uubase, uuid16_type(uulittle, u))
  /\ uuu' = u
  /\ uuop' = "from_uuid16"
  /\ uuret' = 0
  /\ UNCHANGED <<uulittle, uubase>>
  /\ UNCHANGED <<tablerVars, callerVars, reflVars, threadVars, rrVars, fcVars, itVars, ohVars, shVars>>

\* u16.uuid16()
Uuid16 ==
  /\ uuop # "uuid16"
  /\ uuop' = "uuid16"
  /\ uuret' = uuid16(uulittle, uuval)
  /\ UNCHANGED <<uulittle, uubase, uuval, uuu>>
  /\ UNCHANGED <<tablerVars, callerVars, reflVars, threadVars, rrVars, fcVars, itVars, ohVars, shVars>>

\* u128.base_match(u16) and u16.base_match(u128)
BaseMatch ==
  /\ uuop # "base_match"
  /\ uuop' = "base_match"
  /\ uuret' = <<base_match(uubase, uuval), base_match(uuval, uubase)>>
  /\ UNCHANGED <<uulittle, uubase, uuval, uuu>>
  /\ UNCHANGED <<tablerVars, callerVars, reflVars, threadVars, rrVars, fcVars, itVars, ohVars, shVars>>

\* u16[i] = v
AssignOctet(i, v) ==
  /\ Cardinality(Differing(uuval, uubase) \ {12, 13, i}) < MaxEdits
  /\ uuval' = [uuval EXCEPT ![i] = v]
  /\ uuop' = "operator[]"
  /\ uuret' = 0
  /\ UNCHANGED <<uulittle, uubase, uuu>>
  /\ UNCHANGED <<tablerVars, callerVars, reflVars, threadVars, rrVars, fcVars, itVars, ohVars, shVars>>

UuidNext ==
  \/ \E u \in Uuid16Values : FromUuid16(u)
  \/ Uuid16
  \/ BaseMatch
  \/ \E i \in AssignedAt, v \in Assigned : AssignOctet(i, v)

SpecUuid == UuidInit /\ [][UuidNext]_vars

\* C25: for every base b and 16-bit value u the UUID derived by
\* b.from_uuid16(u) gives u back from uuid16(), differs from b in octets 12
\* and 13 at most, which hold u least significant octet first, and matches b
\* by base_match in both directions; two UUIDs that differ in an octet other
\* than 12 and 13 do not match, in either direction.
C25_DerivedUuid ==
  /\ \A u \in Uuid16Values :
       LET d == from_uuid16(uubase, uuid16_type(uulittle, u))
       IN  /\ uuid16(uulittle, d) = u
           /\ Differing(d, uubase) \subseteq {12, 13}
           /\ d[12] = u % 256
           /\ d[13] = u \div 256
           /\ base_match(uubase, d)
           /\ base_match(d, uubase)
  /\ uuop = "from_uuid16" =>
       /\ uuid16(uulittle, uuval) = uuu
       /\ Differing(uuval, uubase) \subseteq {12, 13}
  /\ (Differing(uuval, uubase) \ {12, 13} # {}) =>
       /\ ~base_match(uubase, uuval)
       /\ ~base_match(uuval, uubase)
  /\ \A i \in (0..15) \ {12, 13}, v \in Assigned :
       LET y == [uuval EXCEPT ![i] = v]
       IN  y[i] # uubase[i] =>
             /\ ~base_match(uubase, y)
             /\ ~base_match(y, uubase)
  /\ uuop = "base_match" =>
       uuret = <<Differing(uuval, uubase) \subseteq {12, 13},
                 Differing(uuval, uubase) \subseteq {12, 13}>>

\* The derived UUID of the test, with octet 14 then overwritten, was compared
\* with its base and did not match
C25_Witness ==
  /\ uubase = UUID128_BRACE_INITIALIZER
  /\ uuu = 43981
  /\ uuval[12] = 205
  /\ uuval[13] = 171
  /\ uuval[14] = 0
  /\ uuop = "base_match"
  /\ uuret = <<FALSE, FALSE>>


\* ---------------------------------------------------------------------------
\* ble::gap::adv_data and its store_helper
\* ---------------------------------------------------------------------------

\* Calls made on one adv_data
MaxCalls == 3

\* Octet counts of the buffers an adv_data is constructed over
StoreSizes == {1, 2, 3, 4, 258}

\* Tags and counts start_store() is called with; -1 is the largest size_type
\* and -2 the one below it
StoreTags == {9, 255}

StoreCounts == {0, 1, 2, 254, 255, 256, -2, -1}

\* Spans a caller appends or advances by while a store_helper exists
AppendSpans == {0, 1, 2}

AdvanceSpans == {254, 255}

\* store_helper::store_helper that forgets the tag in the span
store_helper_without_tag(o, m, tag, count) ==
  LET span == count
      span_octet == span % 256
  IN  IF span_octet = span /\ oh_can_advance(o, 1 + span)
        THEN LET a == oh_append(o, m, <<span_octet>>)
                 b == oh_append(a.o, a.m, <<tag>>)
             IN  [o |-> b.o, m |-> b.m, sp |-> o.bp_]
        ELSE [o |-> oh_invalidate(o), m |-> m, sp |-> nullptr]

\* store_helper::store_helper (owner_, tag, count): the owner and the octets
\* it leaves, and its sp
store_helper(o, m, tag, count) ==
  LET span == count + 1
      span_octet == span % 256
  IN  IF span_octet = span /\ oh_can_advance(o, 1 + span)
        THEN LET a == oh_append(o, m, <<span_octet>>)
                 b == oh_append(a.o, a.m, <<tag>>)
             IN  [o |-> b.o, m |-> b.m, sp |-> o.bp_]
        ELSE [o |-> oh_invalidate(o), m |-> m, sp |-> nullptr]

\* store_helper::operator bool
store_helper_bool(sp) == sp # nullptr

\* ~store_helper that stores the low octet of any span
store_helper_dtor_truncates(o, m, sp) ==
  IF oh_valid(o) /\ sp # nullptr /\ sp + 2 # o.bp_
    THEN [o |-> o, m |-> [m EXCEPT ![sp] = (o.bp_ - sp - 1) % 256]]
    ELSE [o |-> o, m |-> m]

\* store_helper::~store_helper
store_helper_dtor(o, m, sp) ==
  IF oh_valid(o) /\ sp # nullptr /\ sp + 2 # o.bp_
    THEN LET span == o.bp_ - sp - 1
         IN  IF span % 256 = span
               THEN [o |-> o, m |-> [m EXCEPT ![sp] = span]]
               ELSE [o |-> oh_invalidate(o), m |-> m]
    ELSE [o |-> o, m |-> m]

\* adv_data (begin, end) over a buffer of count octets
adv_data(count) ==
  /\ LET r == oh_reset(Helper(BufferAt, BufferAt + count, nullptr),
                       [a \in BufferAt..(BufferAt + count - 1) |-> 1])
     IN  /\ ohbegin = r.o.begin_
         /\ ohend = r.o.end_
         /\ ohbp = r.o.bp_
         /\ ohbuf = r.m
  /\ ohop = "adv_data"
  /\ ohs = 0
  /\ ohret = 0
  /\ ohwasbp = nullptr
  /\ ohwasbuf = ohbuf
  /\ ohbad = FALSE
  /\ shpc = "idle"
  /\ shsp = nullptr
  /\ shtag = 0
  /\ shcount = 0
  /\ shreset = FALSE
  /\ shn = 0
  /\ NoTabler
  /\ NoCaller
  /\ NoReflect
  /\ NoThreads
  /\ NoRR
  /\ NoChain
  /\ NoIter

StoreInit ==
  /\ \E count \in StoreSizes : adv_data(count)
  /\ NoUuid

\* A call on the adv_data: the fields and octets it leaves and what it
\* returned
AdvCalled(name, s, o, m, rv) ==
  /\ ohbp' = o.bp_
  /\ ohbuf' = m
  /\ ohop' = name
  /\ ohs' = s
  /\ ohret' = rv
  /\ ohwasbp' = ohbp
  /\ ohwasbuf' = ohbuf
  /\ ohbad' = ~oh_valid(o)
  /\ UNCHANGED <<ohbegin, ohend>>
  /\ UNCHANGED <<tablerVars, callerVars, reflVars, threadVars, rrVars, fcVars, itVars, uuVars>>

\* auto raii = start_store(tag, count)
StartStore(tag, count) ==
  LET r == store_helper(obj, ohbuf, tag, count)
  IN  /\ shpc = "idle"
      /\ shn < MaxCalls
      /\ shpc' = "live"
      /\ shsp' = r.sp
      /\ shtag' = tag
      /\ shcount' = count
      /\ shreset' = FALSE
      /\ shn' = shn + 1
      /\ AdvCalled("start_store", count, r.o, r.m, store_helper_bool(r.sp))

\* append(src, span) while raii exists
StoreAppend(src) ==
  LET r == oh_append(obj, ohbuf, src)
  IN  /\ shpc = "live"
      /\ shn < MaxCalls
      /\ shn' = shn + 1
      /\ UNCHANGED <<shpc, shsp, shtag, shcount, shreset>>
      /\ AdvCalled("append", Len(src), r.o, r.m, r.rv)

\* advance(s) while raii exists
StoreAdvance(s) ==
  LET r == oh_advance(obj, s)
  IN  /\ shpc = "live"
      /\ shn < MaxCalls
      /\ shn' = shn + 1
      /\ UNCHANGED <<shpc, shsp, shtag, shcount, shreset>>
      /\ AdvCalled("advance", s, r.o, ohbuf, r.rv)

\* invalidate() while raii exists
StoreInvalidate ==
  /\ shpc = "live"
  /\ shn < MaxCalls
  /\ shn' = shn + 1
  /\ UNCHANGED <<shpc, shsp, shtag, shcount, shreset>>
  /\ AdvCalled("invalidate", 0, oh_invalidate(obj), ohbuf, 0)

\* reset(), whether raii exists or not
StoreReset ==
  LET r == oh_reset(obj, ohbuf)
  IN  /\ shpc \in {"idle", "live"}
      /\ shn < MaxCalls
      /\ shn' = shn + 1
      /\ shreset' = TRUE
      /\ UNCHANGED <<shpc, shsp, shtag, shcount>>
      /\ AdvCalled("reset", 0, r.o, r.m, 0)

\* raii goes out of scope
StoreDestroy ==
  LET r == store_helper_dtor(obj, ohbuf, shsp)
  IN  /\ shpc = "live"
      /\ shpc' = "idle"
      /\ UNCHANGED <<shsp, shtag, shcount, shreset, shn>>
      /\ AdvCalled("~store_helper", 0, r.o, r.m, 0)

StoreNext ==
  \/ \E tag \in StoreTags, count \in StoreCounts : StartStore(tag, count)
  \/ \E n \in AppendSpans : StoreAppend(Source(n, 2))
  \/ \E s \in AdvanceSpans : StoreAdvance(s)
  \/ StoreInvalidate
  \/ StoreReset
  \/ StoreDestroy

SpecStore == StoreInit /\ [][StoreNext]_vars

\* C21: start_store(tag, count) on a valid adv_data returns a helper that
\* converts to true exactly when count <= 254 and count + 2 octets are
\* available; then the length octet count + 1 and the tag octet were appended;
\* otherwise no octet was written and the adv_data is invalid.
C21_StartStore ==
  (ohop = "start_store" /\ ohwasbp # nullptr) =>
    LET fits == /\ 0 <= shcount
                /\ shcount <= 254
                /\ ohend - ohwasbp >= shcount + 2
    IN  /\ ohret = fits
        /\ fits => /\ ohbp = ohwasbp + 2
                   /\ ohbuf = [ohwasbuf EXCEPT ![ohwasbp] = shcount + 1,
                                               ![ohwasbp + 1] = shtag]
                   /\ shsp = ohwasbp
        /\ ~fits => /\ ohbuf = ohwasbuf
                    /\ ohbp = nullptr
                    /\ shsp = nullptr

\* The same for every count but the largest size_type
C21_StartStoreBelowMax ==
  shcount # -1 => C21_StartStore

\* C22 as stated: when the store_helper of a successful start_store is
\* destroyed while the buffer is valid, after octets were appended the length
\* octet holds the number of octets stored after it, and when nothing was
\* appended it keeps count + 1; when the reservation failed, whether or not
\* the buffer was reset meanwhile, or the buffer is invalid, no octet changes.
C22_Destructor ==
  ohop = "~store_helper" =>
    IF shsp # nullptr /\ ohwasbp # nullptr
      THEN ~shreset =>
             IF ohwasbp # shsp + 2
               THEN ohbuf = [ohwasbuf EXCEPT ![shsp] = ohwasbp - shsp - 1]
               ELSE ohbuf = ohwasbuf /\ ohbuf[shsp] = shcount + 1
      ELSE ohbuf = ohwasbuf

\* C22, with the case it leaves out: when the store_helper of a successful
\* start_store is destroyed while the buffer is valid, n being the number of
\* octets from the one after the length octet to the end of the filled region:
\* if n is 1 no octet changes (and unless reset() was called the length octet
\* holds count + 1); if n is another number that fits in one octet the length
\* octet becomes n, nothing else changes and the buffer stays valid; if n does
\* not fit in one octet no octet changes and the buffer becomes invalid.  When
\* the reservation failed, whether or not the buffer was reset meanwhile, or
\* the buffer is invalid, neither an octet nor the validity changes.
C22_DestructorFitting ==
  ohop = "~store_helper" =>
    IF shsp # nullptr /\ ohwasbp # nullptr
      THEN LET n == ohwasbp - shsp - 1
           IN  IF n = 1
                 THEN /\ ohbuf = ohwasbuf
                      /\ ohbp = ohwasbp
                      /\ ~shreset => ohbuf[shsp] = shcount + 1
                 ELSE IF n \in 0..255
                   THEN /\ ohbuf = [ohwasbuf EXCEPT ![shsp] = n]
                        /\ ohbp = ohwasbp
                   ELSE /\ ohbuf = ohwasbuf
                        /\ ohbp = nullptr
      ELSE ohbuf = ohwasbuf /\ ohbp = ohwasbp

\* start_store(tag, 2), one octet appended, destroyed: the length octet is 2
C22_Witness ==
  /\ ohop = "~store_helper"
  /\ shsp = BufferAt
  /\ shcount = 2
  /\ ~shreset
  /\ ohbp = BufferAt + 3
  /\ ohwasbuf[BufferAt] = 3
  /\ ohbuf[BufferAt] = 2

\* start_store(tag, 1), advance(255), destroyed: 256 octets after the length
\* octet, which still holds 2, and the buffer is invalid
C22_WitnessTooLong ==
  /\ ohop = "~store_helper"
  /\ shsp = BufferAt
  /\ shcount = 1
  /\ ~shreset
  /\ ohwasbp = BufferAt + 257
  /\ ohbuf[BufferAt] = 2
  /\ ohbp = nullptr

\* A failed start_store, reset(), destroyed: nothing changes
C22_WitnessFailedReset ==
  /\ ohop = "~store_helper"
  /\ shsp = nullptr
  /\ shreset
  /\ ohbp = BufferAt
  /\ ohbuf = ohwasbuf

\* ---------------------------------------------------------------------------
\* adv_data: the records its setters store
\* ---------------------------------------------------------------------------

DT_FLAGS == 1
DT_UUID16_INCOMPLETE == 2
DT_UUID16_COMPLETE == 3
DT_UUID32_INCOMPLETE == 4
DT_UUID32_COMPLETE == 5
DT_UUID128_INCOMPLETE == 6
DT_UUID128_COMPLETE == 7
DT_SHORTENED_LOCAL_NAME == 8
DT_COMPLETE_LOCAL_NAME == 9
DT_TX_POWER_LEVEL == 10
DT_SLAVE_CONNECTION_INTERVAL_RANGE == 18
DT_SERVICE_SOLICITATION_UUID16 == 20
DT_SERVICE_SOLICITATION_UUID128 == 21
DT_SERVICE_DATA_UUID16 == 22
DT_ADVERTISING_INTERVAL == 26
DT_SERVICE_SOLICITATION_UUID32 == 31
DT_SERVICE_DATA_UUID32 == 32
DT_SERVICE_DATA_UUID128 == 33
DT_MANUFACTURER_SPECIFIC_DATA == 255

\* Setter calls made on one adv_data
MaxRecords == 2

\* if (auto raii = start_store(tag, count)) { append(src, Len(src)); } and the
\* end of raii's scope
store_append(o, m, tag, count, src) ==
  LET r == store_helper(o, m, tag, count)
      a == IF store_helper_bool(r.sp)
             THEN oh_append(r.o, r.m, src)
             ELSE [o |-> r.o, m |-> r.m, rv |-> FALSE]
  IN  store_helper_dtor(a.o, a.m, r.sp)

\* The octets of count values of one size in memory, each octet v
Objects(count, size, v) == [i \in 1..(count * size) |-> v]

\* The octets of a uint16_t in memory, in address order
Stored16(little, v) ==
  LET x == InMemory16(little, v) IN <<x[0], x[1]>>

\* set_Flags (flags)
set_Flags(o, m, flags) ==
  LET flags8 == flags % 256
  IN  IF flags8 # flags
        THEN [o |-> oh_invalidate(o), m |-> m]
        ELSE store_append(o, m, DT_FLAGS, 1, <<flags8>>)

\* strlen (name) of the characters name, a 0 after them
strlen(name) == Len(name)

\* set_ShortenedLocalName (name, count) and set_CompleteLocalName (name,
\* count), dt being the tag of the one called
set_LocalName(o, m, dt, name, count) ==
  LET n == IF 0 > count THEN strlen(name) ELSE count
  IN  store_append(o, m, dt, n, SubSeq(name, 1, n))

\* set_TXPowerLevel (tx_power)
set_TXPowerLevel(o, m, tx_power) ==
  store_append(o, m, DT_TX_POWER_LEVEL, 1, <<tx_power % 256>>)

\* store_uuids (dt, begin, end) over n UUIDs of size octets each
store_uuids(o, m, dt, size, n, v) ==
  LET span == n * size
  IN  store_append(o, m, dt, span, Objects(n, size, v))

\* set_ManufacturerSpecificData (companyID, span)
set_ManufacturerSpecificData(o, m, little, companyID, span) ==
  LET r == store_helper(o, m, DT_MANUFACTURER_SPECIFIC_DATA, 2 + span)
  IN  IF store_helper_bool(r.sp)
        THEN LET a == oh_append(r.o, r.m, Stored16(little, companyID))
                 v == oh_advance(a.o, span)
                 d == store_helper_dtor(v.o, a.m, r.sp)
             IN  [o |-> d.o, m |-> d.m, rv |-> v.rv]
        ELSE LET d == store_helper_dtor(r.o, r.m, r.sp)
             IN  [o |-> d.o, m |-> d.m, rv |-> nullptr]

\* set_ServiceData (uuid, begin, end), dt being the tag for the uuid's type,
\* uuid its octets and data the octets from begin to end
set_ServiceData(o, m, dt, uuid, data) ==
  LET span == Len(data)
      r == store_helper(o, m, dt, Len(uuid) + span)
  IN  IF store_helper_bool(r.sp)
        THEN LET a == oh_append(r.o, r.m, uuid)
                 v == oh_advance(a.o, span)
                 c == IF v.rv # nullptr THEN memmove(a.m, v.rv, data) ELSE a.m
                 d == store_helper_dtor(v.o, c, r.sp)
             IN  [o |-> d.o, m |-> d.m, rv |-> v.rv]
        ELSE LET d == store_helper_dtor(r.o, r.m, r.sp)
             IN  [o |-> d.o, m |-> d.m, rv |-> nullptr]

\* set_AdvertisingInterval (advInterval)
set_AdvertisingInterval(o, m, little, advInterval) ==
  store_append(o, m, DT_ADVERTISING_INTERVAL, 2, Stored16(little, advInterval))

\* set_SlaveConnectionIntervalRange (connIntervalMin, connIntervalMax)
set_SlaveConnectionIntervalRange(o, m, little, connIntervalMin, connIntervalMax) ==
  store_append(o, m, DT_SLAVE_CONNECTION_INTERVAL_RANGE, 4,
               Stored16(little, connIntervalMin)
                 \o Stored16(little, connIntervalMax))

\* Octet counts of the buffers
AdvSizes == {2, 3, 7, 20}

\* The tag and the UUID size of each set_*ListServiceUUID
ListServiceUUID ==
  {<<DT_UUID16_COMPLETE, 2>>, <<DT_UUID32_COMPLETE, 4>>, <<DT_UUID128_COMPLETE, 16>>,
   <<DT_UUID16_INCOMPLETE, 2>>, <<DT_UUID32_INCOMPLETE, 4>>,
   <<DT_UUID128_INCOMPLETE, 16>>,
   <<DT_SERVICE_SOLICITATION_UUID16, 2>>, <<DT_SERVICE_SOLICITATION_UUID32, 4>>,
   <<DT_SERVICE_SOLICITATION_UUID128, 16>>}

\* The tag and the UUID size of each set_ServiceData
ServiceData ==
  {<<DT_SERVICE_DATA_UUID16, 2>>, <<DT_SERVICE_DATA_UUID32, 4>>,
   <<DT_SERVICE_DATA_UUID128, 16>>}

\* Every tag a setter stores
DataTypes ==
  {DT_FLAGS, DT_TX_POWER_LEVEL, DT_SHORTENED_LOCAL_NAME, DT_COMPLETE_LOCAL_NAME,
   DT_MANUFACTURER_SPECIFIC_DATA, DT_ADVERTISING_INTERVAL,
   DT_SLAVE_CONNECTION_INTERVAL_RANGE}
    \cup {t[1] : t \in ListServiceUUID \cup ServiceData}

\* flags that fit in an octet and flags that do not
Flags == {6, 262}

\* Spans of manufacturer data: -1 is the largest size_type
ManufacturerSpans == {0, 1, 3, -3, -2, -1}

AdvInit ==
  /\ \E count \in AdvSizes : adv_data(count)
  /\ uulittle \in BOOLEAN
  /\ uubase = <<>>
  /\ uuval = <<>>
  /\ uuu = 0
  /\ uuop = "none"
  /\ uuret = 0

\* A setter called on the adv_data
Set(name, s, r) ==
  /\ shn < MaxRecords
  /\ shn' = shn + 1
  /\ UNCHANGED <<shpc, shsp, shtag, shcount, shreset>>
  /\ AdvCalled(name, s, r.o, r.m, 0)

SetFlags(flags) ==
  /\ flags \in Flags
  /\ Set("set_Flags", flags, set_Flags(obj, ohbuf, flags))

SetLocalName(dt, name, count) ==
  /\ count \in -1..Len(name)
  /\ Set("set_LocalName", count, set_LocalName(obj, ohbuf, dt, name, count))

SetTXPowerLevel(tx_power) ==
  /\ tx_power \in -128..127
  /\ Set("set_TXPowerLevel", tx_power, set_TXPowerLevel(obj, ohbuf, tx_power))

SetListServiceUUID(t, n) ==
  /\ t \in ListServiceUUID
  /\ Set("set_ListServiceUUID", n, store_uuids(obj, ohbuf, t[1], t[2], n, 2))

SetServiceData(t, data) ==
  /\ t \in ServiceData
  /\ Set("set_ServiceData", Len(data),
         set_ServiceData(obj, ohbuf, t[1], Objects(1, t[2], 1), data))

SetManufacturerSpecificData(span) ==
  /\ span \in ManufacturerSpans
  /\ Set("set_ManufacturerSpecificData", span,
         set_ManufacturerSpecificData(obj, ohbuf, uulittle, 89, span))

SetAdvertisingInterval(advInterval) ==
  /\ advInterval \in 0..65535
  /\ Set("set_AdvertisingInterval", advInterval,
         set_AdvertisingInterval(obj, ohbuf, uulittle, advInterval))

SetSlaveConnectionIntervalRange(connIntervalMin, connIntervalMax) ==
  /\ connIntervalMin \in 0..65535
  /\ connIntervalMax \in 0..65535
  /\ Set("set_SlaveConnectionIntervalRange", connIntervalMin,
         set_SlaveConnectionIntervalRange(obj, ohbuf, uulittle, connIntervalMin,
                                          connIntervalMax))

\* reset() between setters
AdvReset ==
  LET r == oh_reset(obj, ohbuf)
  IN  /\ ohop # "reset"
      /\ UNCHANGED shVars
      /\ AdvCalled("reset", 0, r.o, r.m, 0)

AdvNext ==
  \/ \E flags \in Flags : SetFlags(flags)
  \/ \E dt \in {DT_SHORTENED_LOCAL_NAME, DT_COMPLETE_LOCAL_NAME} :
       \E n \in {0, 2}, count \in {-1, 1} : SetLocalName(dt, Source(n, 65), count)
  \/ \E tx_power \in {-4} : SetTXPowerLevel(tx_power)
  \/ \E t \in ListServiceUUID, n \in 0..2 : SetListServiceUUID(t, n)
  \/ \E t \in ServiceData, n \in 0..1 : SetServiceData(t, Source(n, 3))
  \/ \E span \in ManufacturerSpans : SetManufacturerSpecificData(span)
  \/ \E advInterval \in {258} : SetAdvertisingInterval(advInterval)
  \/ \E lo \in {6}, hi \in {3200} : SetSlaveConnectionIntervalRange(lo, hi)
  \/ AdvReset

SpecAdv == AdvInit /\ [][AdvNext]_vars

\* The octets of m from p up to e are records, one after another: a length
\* octet L >= 1, a type octet that is a tag a setter stores, and L - 1 more
\* octets
RECURSIVE Records(_, _, _)
Records(m, p, e) ==
  IF p = e
    THEN TRUE
    ELSE /\ p + 1 < e
         /\ m[p] >= 1
         /\ m[p + 1] \in DataTypes
         /\ p + 1 + m[p] <= e
         /\ Records(m, p + 1 + m[p], e)

\* The sizes L + 1 of those records, in order
RECURSIVE RecordSizes(_, _, _)
RecordSizes(m, p, e) ==
  IF p >= e THEN <<>> ELSE <<m[p] + 1>> \o RecordSizes(m, p + 1 + m[p], e)

RECURSIVE SeqSum(_)
SeqSum(q) == IF q = <<>> THEN 0 ELSE Head(q) + SeqSum(Tail(q))

\* C27: after any sequence of reset() and setter calls that leaves the
\* adv_data valid, the filled region is a concatenation of records, each a
\* length octet L >= 1, a type octet and exactly L - 1 payload octets, and
\* the record sizes L + 1 sum to size(), which is at most max_size().
C27_Records ==
  oh_valid(obj) =>
    /\ Records(ohbuf, oh_begin(obj), oh_end(obj))
    /\ SeqSum(RecordSizes(ohbuf, oh_begin(obj), oh_end(obj))) = oh_size(obj)
    /\ oh_size(obj) <= oh_max_size(obj)

\* set_Flags(6) then a local name of one character, over 7 octets
C27_Witness ==
  /\ oh_valid(obj)
  /\ ohop = "set_LocalName"
  /\ oh_size(obj) = 6
  /\ RecordSizes(ohbuf, oh_begin(obj), oh_end(obj)) = <<3, 3>>
  /\ ohbuf[BufferAt] = 2
  /\ ohbuf[BufferAt + 1] = DT_FLAGS
  /\ ohbuf[BufferAt + 2] = 6
  /\ ohbuf[BufferAt + 3] = 2
  /\ ohbuf[BufferAt + 5] = 65

====
